---- MODULE Spec2Model ----
(***************************************************************************)
(* Model of fileconverter: the table post-processor                        *)
(* (converters/table_postprocessor.py), the quality scorer                 *)
(* (utils/quality_scorer.py), the orchestrator (converter.py) with the     *)
(* path utilities (utils/file_utils.py), and the PDF converter             *)
(* (converters/pdf.py), all under src/src/fileconverter.                   *)
(*                                                                         *)
(* A Python str is a sequence of one-character strings; a text with line   *)
(* breaks holds the character "\n".  Every function of the module is an    *)
(* operator computed the way the code computes it; each specification      *)
(* draws the arguments of one entry point from a bounded set and runs it.  *)
(***************************************************************************)
EXTENDS Integers, Sequences, FiniteSets, TLC

VARIABLES
    pc,         \* position of the running call
    line,       \* _split_row: the argument
    cells,      \* _split_row: the returned list
    markdown,   \* postprocess_tables: the argument
    tables,     \* postprocess_tables: the list returned by find_tables
    lines,      \* postprocess_tables: the working list of lines
    todo,       \* postprocess_tables: tables not yet visited by reversed(tables)
    result,     \* postprocess_tables: the returned text
    table,      \* is_degenerate / clean_table: the argument
    verdict,    \* is_degenerate: the returned bool
    cleaned,    \* clean_table: the returned text
    raised,     \* the exceptions that escaped the calls made so far
    request,    \* FileConverter: the method called, its arguments and the converters' outcomes
    files,      \* convert_batch / convert_and_merge: the list returned by discover_files
    futures,    \* the state of each task submitted to the executor
    results,    \* convert_batch / convert_and_merge: the list of results
    written,    \* the write_text calls made so far, in order
    attempt,    \* PDFConverter.convert: the loop variable of the extraction
    calls       \* PDFConverter.convert: the calls made so far and their outcomes

\* The variables of the orchestrator.
converter_vars == <<request, files, futures, results, written>>

\* The variables of the specifications that come after the table functions.
\* The variables of the PDF converter.
pdf_vars == <<attempt, calls>>

later_vars == <<raised, converter_vars, pdf_vars>>

vars == <<pc, line, cells, markdown, tables, lines, todo, result, table, verdict, cleaned,
          later_vars>>

\* Value of a variable the running specification does not use.
Unused == <<>>

ConverterUnused ==
    /\ request = Unused /\ files = Unused /\ futures = Unused
    /\ results = Unused /\ written = Unused

PdfUnused == attempt = Unused /\ calls = Unused

LaterUnused == raised = Unused /\ ConverterUnused /\ PdfUnused

-----------------------------------------------------------------------------
(* Strings                                                                 *)

NL == "\n"
BS == "\\"
PIPE == "|"

\* str.strip() removes leading and trailing whitespace.
IsSpace(c) == c \in {" ", "\t", "\n", "\r"}

RECURSIVE LStrip(_)
LStrip(s) == IF s # <<>> /\ IsSpace(Head(s)) THEN LStrip(Tail(s)) ELSE s

RECURSIVE RStrip(_)
RStrip(s) ==
    IF s # <<>> /\ IsSpace(s[Len(s)]) THEN RStrip(SubSeq(s, 1, Len(s) - 1)) ELSE s

Strip(s) == RStrip(LStrip(s))

StartsWith(s, p) == Len(s) >= Len(p) /\ SubSeq(s, 1, Len(p)) = p

EndsWith(s, p) == Len(s) >= Len(p) /\ SubSeq(s, Len(s) - Len(p) + 1, Len(s)) = p

\* s[i:] of Python, i counted from 0.
From(s, i) == SubSeq(s, i + 1, Len(s))

\* "".join / sep.join over a list of strings.
RECURSIVE Join(_, _)
Join(parts, sep) ==
    IF parts = <<>> THEN <<>>
    ELSE IF Len(parts) = 1 THEN parts[1]
    ELSE parts[1] \o sep \o Join(Tail(parts), sep)

\* str.split(sep) for a one-character separator: always at least one part.
\* The parts lie between consecutive occurrences of sep.
SplitOn(s, sep) ==
    LET at == {i \in 1..Len(s) : s[i] = sep}
        n == Cardinality(at)
        Cut(k) == IF k = 0 THEN 0
                  ELSE IF k = n + 1 THEN Len(s) + 1
                  ELSE CHOOSE i \in at : Cardinality({j \in at : j <= i}) = k
    IN  [k \in 1..(n + 1) |-> SubSeq(s, Cut(k - 1) + 1, Cut(k) - 1)]

SplitLines(text) == SplitOn(text, NL)

JoinLines(ls) == Join(ls, <<NL>>)

\* n cells holding c.
Full(n, c) == [k \in 1..n |-> c]

\* All sequences over S of length 0..n.
SeqsUpTo(S, n) == UNION {[1..m -> S] : m \in 0..n}

-----------------------------------------------------------------------------
(* Parsing: _split_row                                                     *)

\* The while loop of _split_row over the row with its outer pipes removed.
RECURSIVE SplitScan(_, _, _, _)
SplitScan(stripped, i, current, acc) ==
    IF i > Len(stripped) THEN Append(acc, Strip(current))
    ELSE IF stripped[i] = BS /\ i + 1 <= Len(stripped) /\ stripped[i + 1] = PIPE
         THEN SplitScan(stripped, i + 2, current \o <<BS, PIPE>>, acc)
    ELSE IF stripped[i] = PIPE
         THEN SplitScan(stripped, i + 1, <<>>, Append(acc, Strip(current)))
    ELSE SplitScan(stripped, i + 1, Append(current, stripped[i]), acc)

_split_row(ln) ==
    LET s0 == Strip(ln)
        s1 == IF StartsWith(s0, <<PIPE>>) THEN Tail(s0) ELSE s0
        s2 == IF EndsWith(s1, <<PIPE>>) THEN SubSeq(s1, 1, Len(s1) - 1) ELSE s1
    IN  SplitScan(s2, 1, <<>>, <<>>)

-----------------------------------------------------------------------------
(* Parsing: separator lines, table rows, find_tables                       *)

AllIn(s, S) == \A n \in 1..Len(s) : s[n] \in S

\* _SEPARATOR_CELL_RE = ^:?-+:?$ matched against a stripped cell.
MatchSeparatorCell(c) ==
    LET a == IF StartsWith(c, <<":">>) THEN Tail(c) ELSE c
        b == IF EndsWith(a, <<":">>) THEN SubSeq(a, 1, Len(a) - 1) ELSE a
    IN  b # <<>> /\ AllIn(b, {"-"})

_is_separator_line(ln) ==
    LET stripped == Strip(ln)
        cs == _split_row(stripped)
    IN  IF stripped = <<>> THEN FALSE
        ELSE IF Len(cs) < 1 THEN FALSE
        ELSE \A n \in 1..Len(cs) :
                Strip(cs[n]) # <<>> => MatchSeparatorCell(Strip(cs[n]))

_is_table_row(ln) ==
    LET stripped == Strip(ln)
    IN  StartsWith(stripped, <<PIPE>>) /\ EndsWith(stripped, <<PIPE>>) /\ Len(stripped) > 1

\* lines[i] with Python's 0-based index.
LineAt(ls, i) == ls[i + 1]

Abs(x) == IF x < 0 THEN -x ELSE x

\* A faulty variant of ColumnCountsMatch: the cell counts are not compared.
ColumnCountsAny(header_cells, sep_cells) == TRUE

\* not (abs(len(header_cells) - len(sep_cells)) > 1)
ColumnCountsMatch(header_cells, sep_cells) ==
    ~(Abs(Len(header_cells) - Len(sep_cells)) > 1)

\* The while loop collecting data rows: the first j that is not taken.
RECURSIVE DataEnd(_, _)
DataEnd(ls, j) ==
    IF j < Len(ls) /\ _is_table_row(LineAt(ls, j)) /\ ~_is_separator_line(LineAt(ls, j))
    THEN DataEnd(ls, j + 1)
    ELSE j

ParsedTable(header_cells, data_rows, start_line, end_line) ==
    [header_cells |-> header_cells, data_rows |-> data_rows,
     start_line |-> start_line, end_line |-> end_line]

\* The for loop of find_tables from line i on, with the tables and the used set
\* built so far.
RECURSIVE FindFrom(_, _, _, _)
FindFrom(ls, i, used, acc) ==
    IF i >= Len(ls) THEN acc
    ELSE IF i \in used THEN FindFrom(ls, i + 1, used, acc)
    ELSE IF ~_is_separator_line(LineAt(ls, i)) THEN FindFrom(ls, i + 1, used, acc)
    ELSE IF i = 0 \/ ~_is_table_row(LineAt(ls, i - 1)) THEN FindFrom(ls, i + 1, used, acc)
    ELSE
        LET header_cells == _split_row(LineAt(ls, i - 1))
            sep_cells == _split_row(LineAt(ls, i))
        IN  IF ~ColumnCountsMatch(header_cells, sep_cells)
            THEN FindFrom(ls, i + 1, used, acc)
            ELSE
                LET j == DataEnd(ls, i + 1)
                    data_rows == [n \in 1..(j - i - 1) |-> _split_row(LineAt(ls, i + n))]
                    start == i - 1
                    end == j - 1
                IN  FindFrom(ls, i + 1, used \cup (start..end),
                             Append(acc, ParsedTable(header_cells, data_rows, start, end)))

find_tables(text) == FindFrom(SplitLines(text), 0, {}, <<>>)

-----------------------------------------------------------------------------
(* Python float arithmetic (IEEE-754 binary64, round to nearest, ties to   *)
(* even) on the values the thresholds are compared with.  A float is its   *)
(* binary expansion: IntBits bits before the point and FracBits after it,  *)
(* most significant first; every operation computes the exact result and   *)
(* rounds it to Significand significant bits.                              *)

Significand == 53
IntBits == 4
FracBits == 60
Width == IntBits + FracBits

\* The expansion with a single 1 bit at index p (none when p = 0), as a tuple.
UnitBits(p) == SubSeq([i \in 1..Width |-> IF i = p THEN 1 ELSE 0], 1, Width)

FZero == UnitBits(0)
FOne == UnitBits(IntBits)
FHalf == UnitBits(IntBits + 1)

\* Index of the leading 1 bit from index i on, 0 when there is none.
RECURSIVE LeadPos(_, _)
LeadPos(b, i) ==
    IF i > Width THEN 0 ELSE IF b[i] = 1 THEN i ELSE LeadPos(b, i + 1)

\* b plus one unit in the place `last` (b has no bit set after `last`).
RECURSIVE AddUlp(_, _)
AddUlp(b, last) ==
    IF last < 1 THEN b
    ELSE IF b[last] = 0 THEN [b EXCEPT ![last] = 1]
    ELSE AddUlp([b EXCEPT ![last] = 0], last - 1)

\* The exact value b (plus a non-zero tail below the last bit when sticky)
\* rounded to the nearest float, ties to even.
Round(b, sticky) ==
    LET p == LeadPos(b, 1)
        last == p + Significand - 1
    IN  IF p = 0 \/ last >= Width THEN b
        ELSE
            LET guard == b[last + 1]
                rest == sticky \/ \E i \in (last + 2)..Width : b[i] = 1
                trunc == SubSeq(b, 1, last) \o SubSeq(FZero, last + 1, Width)
            IN  IF guard = 1 /\ (rest \/ b[last] = 1) THEN AddUlp(trunc, last) ELSE trunc

RECURSIVE IntToBits(_, _)
IntToBits(q, n) ==
    IF n = 0 THEN <<>> ELSE Append(IntToBits(q \div 2, n - 1), q % 2)

\* In the loops below the operands of a recursive step are compared with
\* themselves first, which makes TLC compute them before it descends.

\* Long division r / n continued for k more binary places.
RECURSIVE DivPlaces(_, _, _, _)
DivPlaces(r, n, k, acc) ==
    IF k = 0 THEN [bits |-> acc, sticky |-> r # 0]
    ELSE LET r2 == (2 * r) % n
             acc2 == Append(acc, (2 * r) \div n)
         IN  IF r2 = r2 /\ acc2 = acc2 THEN DivPlaces(r2, n, k - 1, acc2) ELSE FALSE

\* u / n for ints 0 <= u and 0 < n (true division, correctly rounded).
FRatio(u, n) ==
    LET d == DivPlaces(u % n, n, FracBits, IntToBits(u \div n, IntBits))
    IN  Round(d.bits, d.sticky)

\* a + b.
RECURSIVE AddBits(_, _, _, _, _)
AddBits(a, b, i, carry, acc) ==
    IF i = 0 THEN acc
    ELSE LET t == a[i] + b[i] + carry
             carry2 == t \div 2
             acc2 == <<t % 2>> \o acc
         IN  IF carry2 = carry2 /\ acc2 = acc2
             THEN AddBits(a, b, i - 1, carry2, acc2) ELSE FALSE

FAdd(a, b) == Round(AddBits(a, b, Width, 0, <<>>), FALSE)

\* a - b for a >= b.
RECURSIVE SubBits(_, _, _, _, _)
SubBits(a, b, i, borrow, acc) ==
    IF i = 0 THEN acc
    ELSE LET t == a[i] - b[i] - borrow
             borrow2 == IF t < 0 THEN 1 ELSE 0
             acc2 == <<(t + 2) % 2>> \o acc
         IN  IF borrow2 = borrow2 /\ acc2 = acc2
             THEN SubBits(a, b, i - 1, borrow2, acc2) ELSE FALSE

FSub(a, b) == Round(SubBits(a, b, Width, 0, <<>>), FALSE)

\* a / k for an int k > 0.
RECURSIVE DivBits(_, _, _, _, _)
DivBits(a, k, i, r, acc) ==
    IF i > Width THEN [bits |-> acc, sticky |-> r # 0]
    ELSE LET t == 2 * r + a[i]
             r2 == t % k
             acc2 == Append(acc, t \div k)
         IN  IF r2 = r2 /\ acc2 = acc2 THEN DivBits(a, k, i + 1, r2, acc2) ELSE FALSE

FDivInt(a, k) ==
    LET d == DivBits(a, k, 1, 0, <<>>)
    IN  Round(d.bits, d.sticky)

\* a >= b.
RECURSIVE GeFrom(_, _, _)
GeFrom(a, b, i) ==
    IF i > Width THEN TRUE
    ELSE IF a[i] # b[i] THEN a[i] > b[i]
    ELSE GeFrom(a, b, i + 1)

FGe(a, b) == GeFrom(a, b, 1)

FGt(a, b) == a # b /\ FGe(a, b)

\* sum(...) of floats, left to right from 0.
RECURSIVE FSum(_)
FSum(fs) == IF fs = <<>> THEN FZero ELSE FAdd(FSum(SubSeq(fs, 1, Len(fs) - 1)), fs[Len(fs)])

\* The int k, 0 <= k < 2^IntBits, as a float.
FInt(k) == IntToBits(k, IntBits) \o SubSeq(FZero, IntBits + 1, Width)

\* Long multiplication of a and b.  The exact product has 2 * IntBits bits
\* before the point and 2 * FracBits after it; its place m is fed by the pairs
\* a[i], b[m - i].  MulColumn counts the pairs of place m that are both 1.
MulColumn(a, b, m) ==
    Cardinality({i \in 1..Width : m - i \in 1..Width /\ a[i] = 1 /\ b[m - i] = 1})

\* The columns of the eight places ending at place 8 * c, as one number.
MulChunk(a, b, c) ==
    MulColumn(a, b, 8 * c) + 2 * MulColumn(a, b, 8 * c - 1)
        + 4 * MulColumn(a, b, 8 * c - 2) + 8 * MulColumn(a, b, 8 * c - 3)
        + 16 * MulColumn(a, b, 8 * c - 4) + 32 * MulColumn(a, b, 8 * c - 5)
        + 64 * MulColumn(a, b, 8 * c - 6) + 128 * MulColumn(a, b, 8 * c - 7)

\* The carries run from the last chunk to the first; acc holds the chunks
\* after c as numbers below 256.
RECURSIVE MulCarry(_, _, _, _, _)
MulCarry(a, b, c, carry, acc) ==
    IF c = 0 THEN acc
    ELSE LET t == MulChunk(a, b, c) + carry
             carry2 == t \div 256
             acc2 == <<t % 256>> \o acc
         IN  IF carry2 = carry2 /\ acc2 = acc2 THEN MulCarry(a, b, c - 1, carry2, acc2) ELSE FALSE

\* Bit t (0 the least significant) of the number n.
BitOf(n, t) == (n \div (2 ^ t)) % 2

\* The bits of the exact product, most significant first.
ProductBits(chunks) ==
    [m \in 1..(2 * Width) |-> BitOf(chunks[((m - 1) \div 8) + 1], 7 - ((m - 1) % 8))]

\* The exact product p (below 2^IntBits) rounded to the nearest float.
RoundProduct(p) ==
    Round(SubSeq(p, IntBits + 1, IntBits + Width),
          \E i \in (IntBits + Width + 1)..(2 * Width) : p[i] = 1)

\* a * b.
FMul(a, b) ==
    IF a = a /\ b = b
    THEN RoundProduct(ProductBits(MulCarry(a, b, (2 * Width) \div 8, 0, <<>>)))
    ELSE FZero

-----------------------------------------------------------------------------
(* Analysis: is_degenerate                                                 *)

MIN_COLUMNS_FOR_DEGENERATE == 10
DUPLICATION_RATIO_THRESHOLD == FHalf
GENERIC_HEADER_RATIO_THRESHOLD == FHalf

Digits == {"0", "1", "2", "3", "4", "5", "6", "7", "8", "9"}

\* _GENERIC_HEADER_RE = ^Col\d+$ with re.IGNORECASE, matched against a stripped
\* string.
MatchGeneric(s) ==
    /\ Len(s) >= 4
    /\ s[1] \in {"C", "c"} /\ s[2] \in {"O", "o"} /\ s[3] \in {"L", "l"}
    /\ AllIn(From(s, 3), Digits)

\* [x for x in xs if x.strip()]
NonEmpty(xs) == SelectSeq(xs, LAMBDA x : Strip(x) # <<>>)

Range(xs) == {xs[n] : n \in 1..Len(xs)}

_row_duplication_ratio(cs) ==
    LET non_empty == NonEmpty(cs)
        unique == Range(non_empty)
    IN  IF non_empty = <<>> THEN FZero
        ELSE FSub(FOne, FRatio(Cardinality(unique), Len(non_empty)))

_generic_header_ratio(headers) ==
    LET non_empty == NonEmpty(headers)
        generic == Len(SelectSeq(non_empty, LAMBDA h : MatchGeneric(Strip(h))))
    IN  IF non_empty = <<>> THEN FZero ELSE FRatio(generic, Len(non_empty))

\* A faulty variant of TooNarrow: the column minimum is off by one.
TooNarrowOffByOne(col_count) == col_count < MIN_COLUMNS_FOR_DEGENERATE - 1

\* col_count < MIN_COLUMNS_FOR_DEGENERATE
TooNarrow(col_count) == col_count < MIN_COLUMNS_FOR_DEGENERATE

\* A faulty variant of GenericSignal: the threshold is exclusive.
GenericSignalStrict(gh_ratio) == FGt(gh_ratio, GENERIC_HEADER_RATIO_THRESHOLD)

\* gh_ratio >= GENERIC_HEADER_RATIO_THRESHOLD
GenericSignal(gh_ratio) == FGe(gh_ratio, GENERIC_HEADER_RATIO_THRESHOLD)

avg_dup_of(t) ==
    IF t.data_rows # <<>>
    THEN FDivInt(FSum([n \in 1..Len(t.data_rows) |-> _row_duplication_ratio(t.data_rows[n])]),
                 Len(t.data_rows))
    ELSE FZero

is_degenerate(t) ==
    IF TooNarrow(Len(t.header_cells)) THEN FALSE
    ELSE FGe(avg_dup_of(t), DUPLICATION_RATIO_THRESHOLD)
            \/ GenericSignal(_generic_header_ratio(t.header_cells))

-----------------------------------------------------------------------------
(* Text helpers of the cleaner and the restructurer                        *)

\* First index >= i of s that holds no whitespace (Len(s) + 1 when none).
RECURSIVE SkipSpace(_, _)
SkipSpace(s, i) == IF i <= Len(s) /\ IsSpace(s[i]) THEN SkipSpace(s, i + 1) ELSE i

\* Length of the match of <br\s*/?> at index i of s, 0 when there is none.  The
\* pattern has no re.IGNORECASE flag: it matches the lower-case letters only.
BrTagLen(s, i) ==
    IF i + 2 <= Len(s) /\ s[i] = "<" /\ s[i + 1] = "b" /\ s[i + 2] = "r"
    THEN LET j == SkipSpace(s, i + 3)
             k == IF j <= Len(s) /\ s[j] = "/" THEN j + 1 ELSE j
         IN  IF k <= Len(s) /\ s[k] = ">" THEN k - i + 1 ELSE 0
    ELSE 0

\* re.sub(r"<br\s*/?>", " ", text)
RECURSIVE SubBr(_, _)
SubBr(s, i) ==
    IF i > Len(s) THEN <<>>
    ELSE IF BrTagLen(s, i) > 0 THEN <<" ">> \o SubBr(s, i + BrTagLen(s, i))
    ELSE <<s[i]>> \o SubBr(s, i + 1)

\* re.sub(r"\s+", " ", text)
RECURSIVE CollapseSpace(_, _)
CollapseSpace(s, i) ==
    IF i > Len(s) THEN <<>>
    ELSE IF IsSpace(s[i]) THEN <<" ">> \o CollapseSpace(s, SkipSpace(s, i))
    ELSE <<s[i]>> \o CollapseSpace(s, i + 1)

_clean_br(text) == Strip(CollapseSpace(SubBr(text, 1), 1))

\* a in b
IsSubstring(a, b) ==
    \E i \in 0..(Len(b) - Len(a)) : SubSeq(b, i + 1, i + Len(a)) = a

UpperLetters ==
    <<"A", "B", "C", "D", "E", "F", "G", "H", "I", "J", "K", "L", "M",
      "N", "O", "P", "Q", "R", "S", "T", "U", "V", "W", "X", "Y", "Z">>
LowerLetters ==
    <<"a", "b", "c", "d", "e", "f", "g", "h", "i", "j", "k", "l", "m",
      "n", "o", "p", "q", "r", "s", "t", "u", "v", "w", "x", "y", "z">>

LowerChar(c) ==
    IF c \in Range(UpperLetters)
    THEN LowerLetters[CHOOSE n \in 1..Len(UpperLetters) : UpperLetters[n] = c]
    ELSE c

Lower(s) == [n \in 1..Len(s) |-> LowerChar(s[n])]

\* word \s* word, matched against the whole of s.
MatchTwoWords(s, first, second) ==
    /\ Len(s) >= Len(first) + Len(second)
    /\ StartsWith(s, first) /\ EndsWith(s, second)
    /\ \A n \in (Len(first) + 1)..(Len(s) - Len(second)) : IsSpace(s[n])

\* _FORMAT_HINT_RE (re.IGNORECASE), anchored at both ends, \s* around.
MatchFormatHint(text) ==
    LET s == Lower(Strip(text))
    IN  \/ s \in {<<"h", "h", ":", "m", "m">>, <<"d", "d", "/", "m", "m">>,
                  <<"y", "y", "y", "y">>, <<"m", "m", "/", "d", "d">>,
                  <<"n", ".", "a">>, <<"n", "/", "a">>,
                  <<"n", ".", "a", ".">>, <<"n", "/", "a", ".">>}
        \/ MatchTwoWords(s, <<"s", "t", "a", "r", "t">>, <<"t", "i", "m", "e">>)
        \/ MatchTwoWords(s, <<"e", "n", "d">>, <<"t", "i", "m", "e">>)
        \/ MatchTwoWords(s, <<"-">>, <<"e", "n", "d">>)

-----------------------------------------------------------------------------
(* Normal table cleaning                                                   *)

REDUNDANT_ROW_RATIO_THRESHOLD == FRatio(7, 10)

Max(a, b) == IF a >= b THEN a ELSE b

\* A faulty variant of _is_redundant_subheader: the ratio has to exceed the
\* threshold.
RedundantAboveThreshold(row, header) ==
    LET total == Max(Len(row), 1)
        Hit(i) ==
            LET c == Strip(_clean_br(row[i]))
            IN  \/ c = <<>>
                \/ MatchFormatHint(c)
                \/ /\ i <= Len(header)
                   /\ LET header_clean == Strip(_clean_br(header[i]))
                      IN  /\ header_clean # <<>>
                          /\ IsSubstring(c, header_clean) \/ IsSubstring(header_clean, c)
        matches == Cardinality({i \in 1..Len(row) : Hit(i)})
    IN  IF row = <<>> THEN FALSE
        ELSE FGt(FRatio(matches, total), REDUNDANT_ROW_RATIO_THRESHOLD)

_is_redundant_subheader(row, header) ==
    LET total == Max(Len(row), 1)
        Hit(i) ==
            LET c == Strip(_clean_br(row[i]))
            IN  \/ c = <<>>
                \/ MatchFormatHint(c)
                \/ /\ i <= Len(header)
                   /\ LET header_clean == Strip(_clean_br(header[i]))
                      IN  /\ header_clean # <<>>
                          /\ IsSubstring(c, header_clean) \/ IsSubstring(header_clean, c)
        matches == Cardinality({i \in 1..Len(row) : Hit(i)})
    IN  IF row = <<>> THEN FALSE
        ELSE FGe(FRatio(matches, total), REDUNDANT_ROW_RATIO_THRESHOLD)

DigitChars == <<"0", "1", "2", "3", "4", "5", "6", "7", "8", "9">>

DigitValue(c) == (CHOOSE n \in 1..Len(DigitChars) : DigitChars[n] = c) - 1

RECURSIVE DigitsValue(_)
DigitsValue(d) ==
    IF d = <<>> THEN 0 ELSE 10 * DigitsValue(SubSeq(d, 1, Len(d) - 1)) + DigitValue(d[Len(d)])

\* int(v): surrounding whitespace, one optional sign, decimal digits with single
\* underscores between them; ok is FALSE where int raises ValueError.
ParseInt(v) ==
    LET t == Strip(v)
        signed == t # <<>> /\ t[1] \in {"+", "-"}
        d == IF signed THEN Tail(t) ELSE t
        ok == /\ d # <<>>
              /\ AllIn(d, Digits \cup {"_"})
              /\ d[1] \in Digits /\ d[Len(d)] \in Digits
              /\ \A n \in 1..(Len(d) - 1) : ~(d[n] = "_" /\ d[n + 1] = "_")
        magnitude == DigitsValue(SelectSeq(d, LAMBDA c : c \in Digits))
    IN  [ok |-> ok,
         value |-> IF ~ok THEN 0 ELSE IF signed /\ t[1] = "-" THEN -magnitude ELSE magnitude]

Day == <<"D", "a", "y">>

\* A faulty variant of _infer_column_name: the empty values of the column are
\* parsed with the others.
InferWithEmptyValues(col_index, data_rows) ==
    LET with_col == SelectSeq(data_rows, LAMBDA row : col_index < Len(row))
        values == [n \in 1..Len(with_col) |-> Strip(_clean_br(with_col[n][col_index + 1]))]
        ints == [n \in 1..Len(values) |-> ParseInt(values[n])]
    IN  IF values = <<>> THEN <<>>
        ELSE IF \E n \in 1..Len(ints) : ~ints[n].ok THEN <<>>
        ELSE IF \A n \in 1..Len(ints) : ints[n].value = ints[1].value + n - 1 THEN Day
        ELSE <<>>

\* The str returned by _infer_column_name; None is the empty sequence, which
\* the caller's truth test does not tell from it.
_infer_column_name(col_index, data_rows) ==
    LET with_col == SelectSeq(data_rows, LAMBDA row : col_index < Len(row))
        all_values == [n \in 1..Len(with_col) |-> Strip(_clean_br(with_col[n][col_index + 1]))]
        values == SelectSeq(all_values, LAMBDA v : v # <<>>)
        ints == [n \in 1..Len(values) |-> ParseInt(values[n])]
    IN  IF values = <<>> THEN <<>>
        ELSE IF \E n \in 1..Len(ints) : ~ints[n].ok THEN <<>>
        ELSE IF \A n \in 1..Len(ints) : ints[n].value = ints[1].value + n - 1 THEN Day
        ELSE <<>>

MinColumnWidth == 3

Spaces(n) == [k \in 1..n |-> " "]
Dashes(n) == [k \in 1..n |-> "-"]

\* _fmt_row: each cell left-justified in its column's width. 
FmtRow(cs, widths) ==
    <<PIPE>>
        \o Join([ci \in 1..Len(cs) |->
                    LET w == IF ci <= Len(widths) THEN widths[ci] ELSE MinColumnWidth
                    IN  <<" ">> \o cs[ci] \o Spaces(w - Len(cs[ci])) \o <<" ">>],
                <<PIPE>>)
        \o <<PIPE>>

\* A faulty variant of NormaliseRow: a row that is too long is not cut.
NormaliseRowUncut(r, col_count) ==
    IF Len(r) < col_count THEN r \o [k \in 1..(col_count - Len(r)) |-> <<>>] ELSE r

\* One step of the loop that normalises row lengths.
NormaliseRow(r, col_count) ==
    IF Len(r) < col_count
    THEN r \o [k \in 1..(col_count - Len(r)) |-> <<>>]
    ELSE SubSeq(r, 1, col_count)

_rebuild_table(header, rows) ==
    LET col_count == Len(header)
        normalised_rows == [n \in 1..Len(rows) |-> NormaliseRow(rows[n], col_count)]
        Widest(ci, k) ==
            IF k = 0 THEN Max(MinColumnWidth, Len(header[ci]))
            ELSE Max(Len(normalised_rows[k][ci]),
                     Max(MinColumnWidth, Len(header[ci])))
        widths ==
            [ci \in 1..col_count |->
                CHOOSE w \in {Widest(ci, k) : k \in 0..Len(normalised_rows)} :
                    \A k \in 0..Len(normalised_rows) : w >= Widest(ci, k)]
        out_lines ==
            <<FmtRow(header, widths),
              <<PIPE>> \o Join([ci \in 1..col_count |-> Dashes(widths[ci] + 2)], <<PIPE>>)
                       \o <<PIPE>>>>
                \o [n \in 1..Len(normalised_rows) |-> FmtRow(normalised_rows[n], widths)]
    IN  IF header = <<>> THEN <<>> ELSE JoinLines(out_lines)

\* r[ci] if ci < len(r) else ""
CellOr(r, ci) == IF ci < Len(r) THEN r[ci + 1] ELSE <<>>

\* The elements of a set of integers in ascending order.
Ascending(S) ==
    [k \in 1..Cardinality(S) |-> CHOOSE x \in S : Cardinality({y \in S : y <= x}) = k]

\* Column ci is dropped: all its data cells are empty and its header is generic.
DroppedColumn(header, rows, ci) ==
    /\ \A n \in 1..Len(rows) : ci >= Len(rows[n]) \/ Strip(rows[n][ci + 1]) = <<>>
    /\ MatchGeneric(Strip(header[ci + 1]))

\* keep_cols: the column indices not dropped, in order.
KeepCols(header, rows) ==
    Ascending({ci \in 0..(Len(header) - 1) : ~DroppedColumn(header, rows, ci)})

\* [_clean_br(h) for h in cells]
CleanCells(cs) == [n \in 1..Len(cs) |-> _clean_br(cs[n])]

\* The header after the loop that fixes generic headers.
FixedHeader(header, data_rows) ==
    [n \in 1..Len(header) |->
        IF MatchGeneric(Strip(header[n])) /\ _infer_column_name(n - 1, data_rows) # <<>>
        THEN _infer_column_name(n - 1, data_rows)
        ELSE header[n]]

\* A faulty variant of WithoutSubheader: the first row is dropped untested.
WithoutFirstRow(rows, header) == IF rows # <<>> THEN Tail(rows) ELSE rows

\* The rows without a redundant sub-header row.
WithoutSubheader(rows, header) ==
    IF rows # <<>> /\ _is_redundant_subheader(rows[1], header) THEN Tail(rows) ELSE rows

\* The header and the rows restricted to keep_cols, when some but not all
\* columns are kept.
SelectColumns(header, rows, keep_cols) ==
    IF keep_cols # <<>> /\ Len(keep_cols) < Len(header)
    THEN <<[n \in 1..Len(keep_cols) |-> header[keep_cols[n] + 1]],
           [n \in 1..Len(rows) |->
               [k \in 1..Len(keep_cols) |-> CellOr(rows[n], keep_cols[k])]]>>
    ELSE <<header, rows>>

RebuildSelected(selected) == _rebuild_table(selected[1], selected[2])

\* clean_table from the removal of empty generic columns on.
CleanColumns(header, rows) ==
    RebuildSelected(SelectColumns(header, rows, KeepCols(header, rows)))

\* clean_table from the removal of the sub-header row on.
CleanRowsAndColumns(header, rows) == CleanColumns(header, WithoutSubheader(rows, header))

clean_table(t) ==
    CleanRowsAndColumns(FixedHeader(CleanCells(t.header_cells), t.data_rows),
                        [n \in 1..Len(t.data_rows) |-> CleanCells(t.data_rows[n])])

-----------------------------------------------------------------------------
(* Degenerate table restructuring                                          *)

\* Least j >= i with the marker pair mm at s[j], s[j+1], 0 when there is none.
RECURSIVE NextPair(_, _, _)
NextPair(s, mm, i) ==
    IF i + 1 > Len(s) THEN 0
    ELSE IF s[i] = mm /\ s[i + 1] = mm THEN i
    ELSE NextPair(s, mm, i + 1)

\* re.sub of mm mm (.+?) mm mm by group 1, for the marker character mm: the
\* group is the shortest non-empty run without a line break.
RECURSIVE UnwrapPairs(_, _, _)
UnwrapPairs(s, mm, i) ==
    IF i > Len(s) THEN <<>>
    ELSE
        LET j == IF i + 1 <= Len(s) /\ s[i] = mm /\ s[i + 1] = mm
                 THEN NextPair(s, mm, i + 3) ELSE 0
        IN  IF j > 0 /\ \A n \in (i + 2)..(j - 1) : s[n] # NL
            THEN SubSeq(s, i + 2, j - 1) \o UnwrapPairs(s, mm, j + 2)
            ELSE <<s[i]>> \o UnwrapPairs(s, mm, i + 1)

\* re.sub(r"\*\*(.+?)\*\*", r"\1", text)
_strip_bold(text) == UnwrapPairs(text, "*", 1)

\* re.sub(r"~~(.+?)~~", r"\1", cleaned)
StripStrike(text) == UnwrapPairs(text, "~", 1)

\* The loop of _collect_unique_items over cells[n..], items collected so far.
RECURSIVE CollectFrom(_, _, _)
CollectFrom(cs, n, items) ==
    IF n > Len(cs) THEN items
    ELSE
        LET c == StripStrike(Strip(_strip_bold(_clean_br(cs[n]))))
        IN  IF Strip(cs[n]) = <<>> THEN CollectFrom(cs, n + 1, items)
            ELSE IF c = <<>> THEN CollectFrom(cs, n + 1, items)
            ELSE IF MatchGeneric(c) THEN CollectFrom(cs, n + 1, items)
            ELSE IF c \in Range(items) THEN CollectFrom(cs, n + 1, items)
            ELSE CollectFrom(cs, n + 1, Append(items, c))

_collect_unique_items(cs) == CollectFrom(cs, 1, <<>>)

Letters == Range(UpperLetters) \cup Range(LowerLetters)

\* str.isalpha()
IsAlpha(s) == s # <<>> /\ AllIn(s, Letters)

\* The while loop of _merge_nonadjacent_alpha_fragments at index i (from 0).
RECURSIVE MergeNonadjacentFrom(_, _, _)
MergeNonadjacentFrom(res, i, frag_len) ==
    IF ~(i < Len(res) - 2) THEN res
    ELSE
        LET a == res[i + 1]
            mid == res[i + 2]
            b == res[i + 3]
        IN  IF Len(a) > frag_len \/ ~IsAlpha(a) THEN MergeNonadjacentFrom(res, i + 1, frag_len)
            ELSE IF Len(b) <= frag_len /\ IsAlpha(b) /\ Len(mid) > frag_len
                 THEN MergeNonadjacentFrom(
                          SubSeq(res, 1, i) \o <<a \o b, mid>> \o SubSeq(res, i + 4, Len(res)),
                          i + 2, frag_len)
            ELSE MergeNonadjacentFrom(res, i + 1, frag_len)

_merge_nonadjacent_alpha_fragments(items, frag_len) ==
    IF Len(items) < 3 THEN items ELSE MergeNonadjacentFrom(items, 0, frag_len)

FRAG_LEN == 4

\* A faulty variant of the second pass: a short item in last position is
\* dropped instead of being appended to the previous output item.
RECURSIVE MergeAdjacentDropsLast(_, _, _)
MergeAdjacentDropsLast(items, i, merged) ==
    IF ~(i < Len(items)) THEN merged
    ELSE
        LET item == items[i + 1]
        IN  IF Len(item) <= FRAG_LEN /\ i + 1 < Len(items)
            THEN IF Len(items[i + 2]) <= FRAG_LEN
                 THEN MergeAdjacentDropsLast(items, i + 2, Append(merged, item \o items[i + 2]))
                 ELSE MergeAdjacentDropsLast(items, i + 2,
                                             Append(merged, item \o <<" ">> \o items[i + 2]))
            ELSE IF Len(item) <= FRAG_LEN /\ merged # <<>>
                 THEN MergeAdjacentDropsLast(items, i + 1, merged)
            ELSE MergeAdjacentDropsLast(items, i + 1, Append(merged, item))

\* The second pass of _merge_short_fragments at index i (from 0).
RECURSIVE MergeAdjacentFrom(_, _, _)
MergeAdjacentFrom(items, i, merged) ==
    IF ~(i < Len(items)) THEN merged
    ELSE
        LET item == items[i + 1]
        IN  IF Len(item) <= FRAG_LEN /\ i + 1 < Len(items)
            THEN IF Len(items[i + 2]) <= FRAG_LEN
                 THEN MergeAdjacentFrom(items, i + 2, Append(merged, item \o items[i + 2]))
                 ELSE MergeAdjacentFrom(items, i + 2,
                                        Append(merged, item \o <<" ">> \o items[i + 2]))
            ELSE IF Len(item) <= FRAG_LEN /\ merged # <<>>
                 THEN MergeAdjacentFrom(items, i + 1,
                          [merged EXCEPT ![Len(merged)] = merged[Len(merged)] \o <<" ">> \o item])
            ELSE MergeAdjacentFrom(items, i + 1, Append(merged, item))

_merge_short_fragments(items) ==
    IF Len(items) <= 1 THEN items
    ELSE MergeAdjacentFrom(_merge_nonadjacent_alpha_fragments(items, FRAG_LEN), 0, <<>>)

\* _strip_bold(_clean_br(x)).strip()
CleanLabel(x) == Strip(_strip_bold(_clean_br(x)))

\* Index of role among the entries, 0 when it has none.
RoleIndex(entries, role) ==
    IF \E n \in 1..Len(entries) : entries[n].role = role
    THEN CHOOSE n \in 1..Len(entries) : entries[n].role = role
    ELSE 0

\* A faulty variant of MergeItems: the new items are appended without looking
\* for them among the existing ones.
MergeItemsAll(existing, new_items) == existing \o new_items

\* existing items followed by the new ones not yet among them, in order.
RECURSIVE MergeItems(_, _)
MergeItems(existing, new_items) ==
    IF new_items = <<>> THEN existing
    ELSE IF Head(new_items) \in Range(existing) THEN MergeItems(existing, Tail(new_items))
    ELSE MergeItems(Append(existing, Head(new_items)), Tail(new_items))

\* The loop of restructure_degenerate over data_rows[n..]; entries is role_order
\* with the items of role_items.
RECURSIVE RolesFrom(_, _, _, _)
RolesFrom(data_rows, n, title, entries) ==
    IF n > Len(data_rows) THEN entries
    ELSE
        LET row == data_rows[n]
            role_col == IF title # <<>> /\ Len(row) > 1 THEN 1 ELSE 0
            role == IF role_col < Len(row) THEN CleanLabel(row[role_col + 1]) ELSE <<>>
            content_start == role_col + 1
            content_cells == IF content_start < Len(row) THEN From(row, content_start) ELSE <<>>
            content_items == _collect_unique_items(content_cells)
            at == RoleIndex(entries, role)
        IN  IF row = <<>> THEN RolesFrom(data_rows, n + 1, title, entries)
            ELSE IF role = <<>> THEN RolesFrom(data_rows, n + 1, title, entries)
            ELSE IF at = 0
                 THEN RolesFrom(data_rows, n + 1, title,
                                Append(entries, [role |-> role,
                                                 items |-> MergeItems(<<>>, content_items)]))
            ELSE RolesFrom(data_rows, n + 1, title,
                           [entries EXCEPT ![at].items = MergeItems(@, content_items)])

\* The role entry seeded from the header row, if any.
HeaderRoles(header_cells) ==
    IF Len(header_cells) > 1
    THEN LET role_header == CleanLabel(header_cells[2])
             content_items == _collect_unique_items(From(header_cells, 2))
         IN  IF role_header # <<>> /\ ~MatchGeneric(role_header) /\ content_items # <<>>
             THEN <<[role |-> role_header, items |-> content_items]>>
             ELSE <<>>
    ELSE <<>>

\* The title of restructure_degenerate; None and "" are the empty sequence,
\* which the code's truth tests do not tell apart.
TitleOf(t) ==
    LET col0_values ==
            {CleanLabel(t.data_rows[n][1]) :
                n \in {m \in 1..Len(t.data_rows) :
                          t.data_rows[m] # <<>> /\ Strip(t.data_rows[m][1]) # <<>>}}
    IN  IF Cardinality(col0_values) = 1 THEN CHOOSE v \in col0_values : TRUE ELSE <<>>

\* The lines emitted for the roles entries[n..].
RECURSIVE SectionLines(_, _)
SectionLines(entries, n) ==
    IF n > Len(entries) THEN <<>>
    ELSE LET items == _merge_short_fragments(entries[n].items)
         IN  <<<<"#", "#", "#", " ">> \o entries[n].role, <<>>>>
                 \o [k \in 1..Len(items) |-> <<"-", " ">> \o items[k]]
                 \o <<<<>>>>
                 \o SectionLines(entries, n + 1)

\* A faulty variant of restructure_degenerate: the header row and a separator
\* line are written before the sections.
RestructureUnderHeaderRow(t) ==
    LET title == TitleOf(t)
        title_lines == IF title # <<>> THEN <<<<"#", "#", " ">> \o title, <<>>>> ELSE <<>>
        entries == RolesFrom(t.data_rows, 1, title, HeaderRoles(t.header_cells))
        header_row == <<PIPE>> \o Join(t.header_cells, <<PIPE>>) \o <<PIPE>>
        separator == <<PIPE>> \o Join([n \in 1..Len(t.header_cells) |-> <<"-", "-", "-">>], <<PIPE>>)
                         \o <<PIPE>>
    IN  JoinLines(<<header_row, separator>> \o title_lines \o SectionLines(entries, 1))

restructure_degenerate(t) ==
    LET title == TitleOf(t)
        title_lines == IF title # <<>> THEN <<<<"#", "#", " ">> \o title, <<>>>> ELSE <<>>
        entries == RolesFrom(t.data_rows, 1, title, HeaderRoles(t.header_cells))
    IN  JoinLines(title_lines \o SectionLines(entries, 1))

-----------------------------------------------------------------------------
(* Specification SpecSplit: one call of _split_row                         *)

MaxRowLen == 5

RowChars == {PIPE, BS, "a", " "}

InitSplit ==
    /\ pc = "split"
    /\ line \in SeqsUpTo(RowChars, MaxRowLen)
    /\ cells = Unused
    /\ markdown = Unused /\ tables = Unused /\ lines = Unused /\ todo = Unused
    /\ result = Unused /\ table = Unused /\ verdict = Unused /\ cleaned = Unused /\ LaterUnused

SplitRow ==
    /\ pc = "split"
    /\ cells' = _split_row(line)
    /\ pc' = "split_done"
    /\ UNCHANGED <<later_vars, line, markdown, tables, lines, todo, result, table, verdict, cleaned>>

NextSplit == SplitRow

SpecSplit == InitSplit /\ [][NextSplit]_vars

\* Occurrences of the two characters backslash-pipe in s.
RECURSIVE CountEsc(_)
CountEsc(s) ==
    IF Len(s) < 2 THEN 0
    ELSE IF s[1] = BS /\ s[2] = PIPE THEN 1 + CountEsc(From(s, 2))
    ELSE CountEsc(Tail(s))

RECURSIVE SumEsc(_)
SumEsc(cs) == IF cs = <<>> THEN 0 ELSE CountEsc(Head(cs)) + SumEsc(Tail(cs))

\* Pipes of s that are not the second character of a backslash-pipe pair.
RECURSIVE CountBarePipes(_)
CountBarePipes(s) ==
    IF s = <<>> THEN 0
    ELSE IF Len(s) >= 2 /\ s[1] = BS /\ s[2] = PIPE THEN CountBarePipes(From(s, 2))
    ELSE (IF s[1] = PIPE THEN 1 ELSE 0) + CountBarePipes(Tail(s))

\* TRUE when s ends in a pipe that is not escaped.
RECURSIVE EndsInBarePipe(_)
EndsInBarePipe(s) ==
    IF s = <<>> THEN FALSE
    ELSE IF Len(s) >= 2 /\ s[1] = BS /\ s[2] = PIPE THEN EndsInBarePipe(From(s, 2))
    ELSE IF Len(s) = 1 THEN s[1] = PIPE
    ELSE EndsInBarePipe(Tail(s))

\* The row as the claim reads it: one leading and one trailing delimiter removed.
RowBody(ln) ==
    LET s0 == Strip(ln)
        s1 == IF StartsWith(s0, <<PIPE>>) THEN Tail(s0) ELSE s0
    IN  IF EndsInBarePipe(s1) THEN SubSeq(s1, 1, Len(s1) - 1) ELSE s1

\* C7: _split_row keeps every backslash-pipe pair of the row inside a cell (also
\* at the end of the row), yields one cell more than there are unescaped pipes
\* left after removing one leading and one trailing pipe, and trims every cell.
C7_EscapedPipesKept ==
    pc = "split_done" =>
        /\ SumEsc(cells) = CountEsc(Strip(line))
        /\ Len(cells) = 1 + CountBarePipes(RowBody(line))
        /\ \A n \in 1..Len(cells) : cells[n] = Strip(cells[n])

-----------------------------------------------------------------------------
(* Specification SpecDegen: one call of is_degenerate                      *)

MaxCols == 11
MaxDataRows == 2

\* A generic header cell: Col<digit> in either letter case.
GenericCell(i) == IF i % 2 = 1 THEN <<"C", "o", "l", "3">> ELSE <<"c", "O", "L", "4">>

\* The k-th of the pairwise distinct cell values x, xx, xxx, ...
ValueCell(k) == [j \in 1..k |-> "x"]

\* n header cells: g generic ones, then e empty ones, then named ones.
HeaderOf(n, g, e) ==
    [i \in 1..n |-> IF i <= g THEN GenericCell(i) ELSE IF i <= g + e THEN <<>> ELSE <<"h">>]

\* n cells of which the first m are non-empty and hold u distinct values.
RowOf(n, u, m) ==
    [i \in 1..n |-> IF i > m THEN <<>> ELSE ValueCell(IF i < u THEN i ELSE u)]

HeaderShapes(n) ==
    {<<g, e>> : g \in {0, 1}, e \in {0, 1}}
        \cup {<<(n - e) \div 2, e>> : e \in {0, 1}}
        \cup {<<(n - e + 1) \div 2, e>> : e \in {0, 1}}
        \cup {<<n - e, e>> : e \in {0, 1}}
        \cup {<<0, n>>}

RowShapes(n) ==
    {<<0, 0>>, <<1, n>>, <<2, n>>, <<n \div 2, n>>, <<n - 2, n>>, <<n, n>>,
     <<(n - 1) \div 2, n - 1>>}

\* The table with n columns of header shape h and row shapes rs.
DegenTable(n, h, rs) ==
    ParsedTable(HeaderOf(n, h[1], h[2]),
                [r \in 1..Len(rs) |-> RowOf(n, rs[r][1], rs[r][2])],
                0, 1 + Len(rs))

InitDegen ==
    /\ pc = "classify"
    /\ \E n \in (MIN_COLUMNS_FOR_DEGENERATE - 1)..MaxCols :
           \E h \in HeaderShapes(n), rs \in SeqsUpTo(RowShapes(n), MaxDataRows) :
               table = DegenTable(n, h, rs)
    /\ verdict = Unused
    /\ line = Unused /\ cells = Unused /\ markdown = Unused /\ tables = Unused
    /\ lines = Unused /\ todo = Unused /\ result = Unused /\ cleaned = Unused /\ LaterUnused

IsDegenerate ==
    /\ pc = "classify"
    /\ verdict' = is_degenerate(table)
    /\ pc' = "classify_done"
    /\ UNCHANGED <<later_vars, line, cells, markdown, tables, lines, todo, result, table, cleaned>>

NextDegen == IsDegenerate

SpecDegen == InitDegen /\ [][NextDegen]_vars

\* Counts of the header cells: non-empty ones, and those among them matching
\* Col<digits>.
NonEmptyHeaders(t) == Len(NonEmpty(t.header_cells))
GenericHeaders(t) == Len(SelectSeq(NonEmpty(t.header_cells), LAMBDA h : MatchGeneric(Strip(h))))

\* The duplication ratios of the data rows as exact fractions: row r has ratio
\* (m - u) / m for m non-empty cells with u distinct values, 0 / 1 for m = 0.
DupNum(row) == Len(NonEmpty(row)) - Cardinality(Range(NonEmpty(row)))
DupDen(row) == IF NonEmpty(row) = <<>> THEN 1 ELSE Len(NonEmpty(row))

\* Sum of the ratios of rows 1..k as a fraction <<numerator, denominator>>.
RECURSIVE DupSum(_, _)
DupSum(rows, k) ==
    IF k = 0 THEN <<0, 1>>
    ELSE LET s == DupSum(rows, k - 1)
         IN  <<s[1] * DupDen(rows[k]) + DupNum(rows[k]) * s[2], s[2] * DupDen(rows[k])>>

\* The mean of the ratios is at least 1/2 (0 when there is no data row).
MeanDupAtLeastHalf(t) ==
    /\ t.data_rows # <<>>
    /\ LET s == DupSum(t.data_rows, Len(t.data_rows))
       IN  2 * s[1] >= Len(t.data_rows) * s[2]

\* C4: a table with fewer than 10 header cells is never degenerate.
C4_SmallNeverDegenerate ==
    (pc = "classify_done" /\ Len(table.header_cells) < 10) => verdict = FALSE

\* C4 witness: a 9-column table whose headers are all generic and whose rows are
\* all duplicates has been classified, as not degenerate.
C4_Witness ==
    /\ pc = "classify_done"
    /\ Len(table.header_cells) = 9
    /\ GenericHeaders(table) = 9
    /\ Len(table.data_rows) = 2
    /\ MeanDupAtLeastHalf(table)
    /\ verdict = FALSE

\* C5: a table with at least 10 header cells whose mean row duplication ratio is
\* at least 0.5 (0.5 included) is degenerate.
C5_MeanDupHalfIsDegenerate ==
    (pc = "classify_done" /\ Len(table.header_cells) >= 10 /\ MeanDupAtLeastHalf(table))
        => verdict = TRUE

\* C6 as stated: a table in which at least half of the non-empty header cells
\* (there being one) match Col<digits> is degenerate, whatever its column count.
C6_GenericHalfIsDegenerate ==
    (/\ pc = "classify_done"
     /\ NonEmptyHeaders(table) >= 1
     /\ 2 * GenericHeaders(table) >= NonEmptyHeaders(table))
        => verdict = TRUE

\* C6 amended: a table with at least 10 header cells, at least one of them
\* non-empty, in which at least half of the non-empty header cells match
\* Col<digits> is degenerate.
C6_WideGenericHalfIsDegenerate ==
    (/\ pc = "classify_done"
     /\ Len(table.header_cells) >= 10
     /\ NonEmptyHeaders(table) >= 1
     /\ 2 * GenericHeaders(table) >= NonEmptyHeaders(table))
        => verdict = TRUE

\* C6 witness: a wide table with exactly half of its non-empty headers generic
\* and no duplication in its rows has been classified, as degenerate.
C6_Witness ==
    /\ pc = "classify_done"
    /\ Len(table.header_cells) >= 10
    /\ NonEmptyHeaders(table) >= 1
    /\ 2 * GenericHeaders(table) = NonEmptyHeaders(table)
    /\ ~MeanDupAtLeastHalf(table)
    /\ verdict = TRUE

-----------------------------------------------------------------------------
(* Specification SpecClean: one call of clean_table                        *)

MaxCleanCols == 2
MaxCleanRows == 2

CleanHeaderCells ==
    {<<>>, <<"a">>, <<"C", "o", "l", "1">>, <<"a", "<", "b", "r", "/", ">", "b">>,
     <<"<", "B", "R", ">">>}

CleanDataCells ==
    {<<>>, <<"1">>, <<"2">>, <<"a">>, <<"x", "<", "b", "r", " ", "/", ">", "y">>}

\* The rows of a table with n columns: full rows, an empty row and a row with
\* one cell too many.
CleanRows(n) ==
    [1..n -> CleanDataCells] \cup {<<>>, [k \in 1..(n + 1) |-> <<"1">>]}

CleanTables ==
    UNION {
        {ParsedTable(h, rs, 0, 1 + Len(rs)) :
            h \in [1..n -> CleanHeaderCells], rs \in SeqsUpTo(CleanRows(n), MaxCleanRows)} :
        n \in 1..MaxCleanCols}

InitClean ==
    /\ pc = "clean"
    /\ table \in CleanTables
    /\ cleaned = Unused /\ LaterUnused
    /\ line = Unused /\ cells = Unused /\ markdown = Unused /\ tables = Unused
    /\ lines = Unused /\ todo = Unused /\ result = Unused /\ verdict = Unused

CleanTable ==
    /\ pc = "clean"
    /\ cleaned' = clean_table(table)
    /\ pc' = "clean_done"
    /\ UNCHANGED <<later_vars, line, cells, markdown, tables, lines, todo, result, table, verdict>>

NextClean == CleanTable

SpecClean == InitClean /\ [][NextClean]_vars

\* The tags <br>, <br/> and <br /> in lower case.
BrTags ==
    {<<"<", "b", "r", ">">>, <<"<", "b", "r", "/", ">">>, <<"<", "b", "r", " ", "/", ">">>}

\* s holds one of the tags in some letter case.
HasBrTag(s) == \E tag \in BrTags : IsSubstring(tag, Lower(s))

\* C10: the output of clean_table holds no <br>, <br/> or <br /> tag in any
\* letter case.
C10_NoBrTagLeft ==
    pc = "clean_done" => ~HasBrTag(cleaned)

\* The lines of the text clean_table returned.
OutputLines == SplitLines(cleaned)

\* The cells of the header row of the output.
OutputHeader == _split_row(OutputLines[1])

\* The header of the table after the renaming step.
RenamedHeader == FixedHeader(CleanCells(table.header_cells), table.data_rows)

\* The data rows that remain after the sub-header step.
RetainedRows ==
    WithoutSubheader([n \in 1..Len(table.data_rows) |-> CleanCells(table.data_rows[n])],
                     RenamedHeader)

\* Every cell of column ci of the rows is empty and its header is generic.
EmptyGeneric(header, rows, ci) ==
    /\ \A n \in 1..Len(rows) : ci >= Len(rows[n]) \/ Strip(rows[n][ci + 1]) = <<>>
    /\ MatchGeneric(Strip(header[ci + 1]))

\* The header cells of the columns that are not empty and generic, in order.
HeaderToKeep(header, rows) ==
    LET keep == Ascending({ci \in 0..(Len(header) - 1) : ~EmptyGeneric(header, rows, ci)})
    IN  [k \in 1..Len(keep) |-> header[keep[k] + 1]]

\* C11: clean_table drops exactly the columns whose data cells are all empty
\* and whose header is still generic after renaming, and keeps the others in
\* order: the output header is the renamed header at the other indices, also
\* when every column qualifies or there are no data rows.
C11_DropsExactlyEmptyGeneric ==
    pc = "clean_done" =>
        LET expected == HeaderToKeep(RenamedHeader, RetainedRows)
        IN  IF expected = <<>> THEN cleaned = <<>> ELSE OutputHeader = expected

\* C12: every column retained in the output of clean_table has a non-empty
\* header cell.
C12_RetainedHeadersNonEmpty ==
    pc = "clean_done" /\ cleaned # <<>> =>
        \A k \in 1..Len(OutputHeader) : OutputHeader[k] # <<>>

\* The output lines out are an aligned table of the rows under a header of
\* the given cells: one line per row after the header and the separator, each
\* row with as many cells as the header (the cells of the row, padded or cut,
\* when all columns are kept), lines equally long, columns at least 3 wide.
AlignedTable(out, header, rows, all_kept) ==
    /\ Len(out) = 2 + Len(rows)
    /\ \A k \in 3..Len(out) : Len(_split_row(out[k])) = Len(header)
    /\ all_kept =>
           \A k \in 3..Len(out) :
               _split_row(out[k]) = [ci \in 1..Len(header) |-> CellOr(rows[k - 2], ci - 1)]
    /\ \A k \in 1..Len(out) : Len(out[k]) = Len(out[1])
    /\ Len(_split_row(out[2])) = Len(header)
    /\ \A c \in Range(_split_row(out[2])) : AllIn(c, {"-"}) /\ Len(c) >= 3 + 2

\* Specification SpecAlign: one call of clean_table on a table of up to
\* MaxAlignCols columns whose rows have one cell less than the header, as many,
\* or one more.
MaxAlignCols == 3
MaxAlignRows == 2

\* Headers of n cells: equal names, and a longer name first.
AlignHeaders(n) ==
    {Full(n, <<"a">>), <<<<"n", "a", "m", "e">>>> \o Full(n - 1, <<"a">>)}

\* Rows for a header of n cells, with cells narrower and wider than the
\* minimum column width.
AlignRows(n) ==
    {Full(m, c) : m \in {k \in {n - 1, n, n + 1} : k >= 1},
                  c \in {<<"x">>, <<"w", "i", "d", "e">>}}

InitAlign ==
    /\ pc = "clean"
    /\ \E n \in 1..MaxAlignCols :
           \E h \in AlignHeaders(n), rs \in SeqsUpTo(AlignRows(n), MaxAlignRows) :
               table = ParsedTable(h, rs, 0, 1 + Len(rs))
    /\ cleaned = Unused /\ LaterUnused
    /\ line = Unused /\ cells = Unused /\ markdown = Unused /\ tables = Unused
    /\ lines = Unused /\ todo = Unused /\ result = Unused /\ verdict = Unused

SpecAlign == InitAlign /\ [][NextClean]_vars

\* C13: in the output of clean_table every data row has as many cells as the
\* header (short rows padded with empty cells, long rows cut), there are 2 +
\* (number of retained data rows) lines, all lines are equally long, and every
\* column is at least 3 wide.
C13_RaggedRowsAligned ==
    pc = "clean_done" /\ cleaned # <<>> =>
        AlignedTable(OutputLines, OutputHeader, RetainedRows,
                     Len(OutputHeader) = Len(table.header_cells))

\* A cleaned table with a retained row shorter and one longer than the header.
C13_Witness ==
    /\ pc = "clean_done"
    /\ cleaned # <<>>
    /\ \E n \in 1..Len(RetainedRows) : Len(RetainedRows[n]) < Len(OutputHeader)
    /\ \E n \in 1..Len(RetainedRows) : Len(RetainedRows[n]) > Len(OutputHeader)

-----------------------------------------------------------------------------
(* Specification SpecReclean: clean_table, find_tables on its output, and  *)
(* clean_table on the table parsed from it.                                *)

MaxReCols == 4
MaxReRows == 2

\* Headers of n cells: named, dashes, and one generic cell before named ones.
ReHeaders(n) ==
    {Full(n, <<"a">>), Full(n, <<"-">>), <<<<"C", "o", "l", "1">>>> \o Full(n - 1, <<"a">>)}

\* Rows for n columns: full rows of one value, a row of cells with a bare
\* pipe, a row of one cell, and rows of n + 1 cells.
ReRows(n) ==
    {Full(n, <<"x">>), Full(n, <<"-">>), Full(n, <<"a">>), Full(n, <<"a", PIPE, "b">>),
     <<<<"x">>>>, Full(n + 1, <<"x">>), <<<<"-">>>> \o Full(n, <<"x">>)}

InitReclean ==
    /\ pc = "first"
    /\ \E n \in 1..MaxReCols :
           \E h \in ReHeaders(n), rs \in SeqsUpTo(ReRows(n), MaxReRows) :
               table = ParsedTable(h, rs, 0, 1 + Len(rs))
    /\ cleaned = Unused /\ LaterUnused /\ tables = Unused /\ result = Unused
    /\ line = Unused /\ cells = Unused /\ markdown = Unused /\ lines = Unused
    /\ todo = Unused /\ verdict = Unused

\* The first call: clean_table(table).
CleanFirst ==
    /\ pc = "first"
    /\ cleaned' = clean_table(table)
    /\ pc' = "first_done"
    /\ UNCHANGED <<later_vars, line, cells, markdown, tables, lines, todo, result, table, verdict>>

\* find_tables on the text the first call returned.
Reparse ==
    /\ pc = "first_done"
    /\ tables' = find_tables(cleaned)
    /\ pc' = "reparsed"
    /\ UNCHANGED <<later_vars, line, cells, markdown, lines, todo, result, table, verdict, cleaned>>

\* The second call: clean_table on the first table parsed.
CleanSecond ==
    /\ pc = "reparsed"
    /\ tables # <<>>
    /\ result' = clean_table(tables[1])
    /\ pc' = "second_done"
    /\ UNCHANGED <<later_vars, line, cells, markdown, tables, lines, todo, table, verdict, cleaned>>

NextReclean == CleanFirst \/ Reparse \/ CleanSecond

SpecReclean == InitReclean /\ [][NextReclean]_vars

\* No cell of the table holds a <br> tag, no header cell is generic and no
\* data row is a redundant sub-header.
AlreadyClean(t) ==
    /\ \A c \in Range(t.header_cells) : ~HasBrTag(c) /\ ~MatchGeneric(Strip(c))
    /\ \A r \in Range(t.data_rows) :
           /\ \A c \in Range(r) : ~HasBrTag(c)
           /\ ~_is_redundant_subheader(r, t.header_cells)

\* The second call returned the text of the first, parsed as one table.
SameTextTwice ==
    /\ pc = "reparsed" => Len(tables) = 1
    /\ pc = "second_done" => result = cleaned

\* C14: for a table with no <br>, no generic headers and no redundant rows,
\* parsing the output of clean_table with find_tables and cleaning the parsed
\* table again gives the same text.
C14_CleanTwiceSame ==
    AlreadyClean(table) => SameTextTwice

\* s holds a pipe that no backslash escapes.
RECURSIVE HasBarePipe(_)
HasBarePipe(s) ==
    IF s = <<>> THEN FALSE
    ELSE IF Head(s) = BS /\ Len(s) >= 2 /\ s[2] = PIPE THEN HasBarePipe(Tail(Tail(s)))
    ELSE Head(s) = PIPE \/ HasBarePipe(Tail(s))

\* The row as a line of the output shows it: padded or cut to n cells.
AsWritten(r, n) == NormaliseRow(CleanCells(r), n)

\* Every cell of the row is empty or dashes with optional colons.
SeparatorLike(r) == \A c \in Range(r) : c = <<>> \/ MatchSeparatorCell(c)

\* AlreadyClean, no cell holds a bare pipe, and no data row, once padded or
\* cut to the header's length, is a redundant sub-header or separator-like.
CleanAsWritten(t) ==
    /\ AlreadyClean(t)
    /\ \A c \in Range(t.header_cells) : ~HasBarePipe(c)
    /\ \A r \in Range(t.data_rows) :
           /\ \A c \in Range(r) : ~HasBarePipe(c)
           /\ ~_is_redundant_subheader(AsWritten(r, Len(t.header_cells)), t.header_cells)
           /\ ~SeparatorLike(AsWritten(r, Len(t.header_cells)))

\* C14 as amended: the same, for tables whose cells hold no bare pipe and
\* whose data rows, once padded or cut to the header's length, are neither
\* redundant sub-headers nor separator-like.
C14_CleanTwiceSameAsWritten ==
    CleanAsWritten(table) => SameTextTwice

\* The second call has returned for such a table with a short and a long row.
C14_Witness ==
    /\ pc = "second_done"
    /\ CleanAsWritten(table)
    /\ \E r \in Range(table.data_rows) : Len(r) < Len(table.header_cells)
    /\ \E r \in Range(table.data_rows) : Len(r) > Len(table.header_cells)

-----------------------------------------------------------------------------
(* Specification SpecRestructure: is_degenerate and restructure_degenerate *)
(* on a wide table, then find_tables on the text that was returned.        *)

MaxWideCols == 11
MaxWideRows == 2

\* str(n) for 0 <= n < 100.
Decimal(n) ==
    IF n < 10 THEN <<DigitChars[n + 1]>>
    ELSE <<DigitChars[(n \div 10) + 1], DigitChars[(n % 10) + 1]>>

\* The header cells Title, Role, Col3, ..., Coln.
GenericWideHeader(n) ==
    [i \in 1..n |-> IF i = 1 THEN <<"T", "i", "t", "l", "e">>
                    ELSE IF i = 2 THEN <<"R", "o", "l", "e">>
                    ELSE <<"C", "o", "l">> \o Decimal(i)]

\* The same with a named third cell, so that the header row has content.
NamedWideHeader(n) == [GenericWideHeader(n) EXCEPT ![3] = <<"h", "e", "a", "d">>]

WideHeaders(n) == {GenericWideHeader(n), NamedWideHeader(n)}

\* Cell values a row repeats in all its cells.
SameCells ==
    {<<"S", "a", "m", "e">>, <<"x">>, <<"*", "*", "b", "*", "*">>}

\* A row of n cells: title, role, the items, then empty cells.
RoleRow(n, title, role, items) == <<title, role>> \o items \o Full(n - 2 - Len(items), <<>>)

Abc == <<"a", "b", "c">>
Def == <<"d", "e", "f">>
Consulting == <<"C", "o", "n", "s", "u", "l", "t", "i", "n", "g">>

\* Rows of n cells: repeated titles and roles, bold roles, split words, cells
\* repeated within a row, <br> tags, leaked generic names, empty roles and
\* empty titles.
RoleRows(n) ==
    {RoleRow(n, <<"T">>, <<"R">>, <<Abc, Def, Abc \o Def>>),
     RoleRow(n, <<"T">>, <<"*", "*", "R", "*", "*">>, <<<<"Y", "E">>, Consulting, <<"S">>>>),
     RoleRow(n, <<"T">>, <<"R">>, <<Consulting, Consulting>>),
     RoleRow(n, <<"U">>, <<"Q">>, <<<<"x", "<", "b", "r", ">", "y">>, <<"C", "o", "l", "5">>>>),
     RoleRow(n, <<"T">>, <<>>, <<Abc>>),
     RoleRow(n, <<>>, <<"R">>, <<Abc>>)}

WideRows(n) == {Full(n, s) : s \in SameCells} \cup RoleRows(n)

InitRestructure ==
    /\ pc = "classify"
    /\ \E n \in MIN_COLUMNS_FOR_DEGENERATE..MaxWideCols :
           \E h \in WideHeaders(n), rs \in SeqsUpTo(WideRows(n), MaxWideRows) :
               table = ParsedTable(h, rs, 0, 1 + Len(rs))
    /\ verdict = Unused /\ markdown = Unused /\ tables = Unused
    /\ line = Unused /\ cells = Unused /\ lines = Unused /\ todo = Unused
    /\ result = Unused /\ cleaned = Unused /\ LaterUnused

Classify ==
    /\ pc = "classify"
    /\ verdict' = is_degenerate(table)
    /\ pc' = "classified"
    /\ UNCHANGED <<later_vars, line, cells, markdown, tables, lines, todo, result, table, cleaned>>

Restructure ==
    /\ pc = "classified"
    /\ markdown' = restructure_degenerate(table)
    /\ pc' = "restructured"
    /\ UNCHANGED <<later_vars, line, cells, tables, lines, todo, result, table, verdict, cleaned>>

FindInReplacement ==
    /\ pc = "restructured"
    /\ tables' = find_tables(markdown)
    /\ pc' = "searched"
    /\ UNCHANGED <<later_vars, line, cells, markdown, lines, todo, result, table, verdict, cleaned>>

NextRestructure == Classify \/ Restructure \/ FindInReplacement

SpecRestructure == InitRestructure /\ [][NextRestructure]_vars

\* The lines of the text restructure_degenerate returned.
RestructuredLines == SplitLines(markdown)

Bullet(s) == <<"-", " ">> \o s

Heading(s) == <<"#", "#", "#", " ">> \o s

IsHeading(l) == StartsWith(l, <<"#", "#", "#", " ">>)

IsBullet(l) == StartsWith(l, <<"-", " ">>)

\* The number of the last level-3 heading line of ls before line k, 0 if none.
HeadingAbove(ls, k) ==
    LET hs == {j \in 1..(k - 1) : IsHeading(ls[j])}
    IN  IF hs = {} THEN 0 ELSE CHOOSE j \in hs : \A i \in hs : i <= j

\* t has the headers Title, Role, Col3, ..., ColN and at least one data row, and
\* every cell of every data row is s.
AllCellsSame(t, s) ==
    /\ t.header_cells = GenericWideHeader(Len(t.header_cells))
    /\ t.data_rows # <<>>
    /\ \A r \in Range(t.data_rows) : r = Full(Len(t.header_cells), s)

\* Exactly one line of ls is the bullet of s, and it stands under the heading
\* of role.
OneBulletUnder(ls, s, role) ==
    \E k \in 1..Len(ls) :
        /\ {j \in 1..Len(ls) : ls[j] = Bullet(s)} = {k}
        /\ HeadingAbove(ls, k) # 0
        /\ ls[HeadingAbove(ls, k)] = Heading(role)

\* C15 as stated: a wide table with headers Title, Role, Col3..ColN whose data
\* cells are all the string S is degenerate, and its replacement holds exactly
\* one bullet "- S", under the heading "### Role".
C15_SameCellsOneBulletUnderRole ==
    pc = "restructured" =>
        \A s \in SameCells :
            AllCellsSame(table, s) =>
                verdict = TRUE
                /\ OneBulletUnder(RestructuredLines, s, <<"R", "o", "l", "e">>)

\* s is not empty, is no generic column name and is a cell the cleaning of
\* labels and items leaves as it is.
PlainCell(s) == s # <<>> /\ CleanLabel(s) = s /\ StripStrike(s) = s /\ ~MatchGeneric(s)

\* C15 amended: for such a table with a plain string S, the table is degenerate
\* and its replacement holds exactly one bullet "- S", under the heading
\* "### S": the role is the value of the second cell of the data rows, not the
\* header cell Role.
C15_SameCellsOneBulletUnderOwnValue ==
    pc = "restructured" =>
        \A s \in SameCells :
            AllCellsSame(table, s) /\ PlainCell(s) =>
                verdict = TRUE /\ OneBulletUnder(RestructuredLines, s, s)

\* Two data rows of the same plain value have been restructured.
C15_Witness ==
    /\ pc = "restructured"
    /\ AllCellsSame(table, <<"S", "a", "m", "e">>)
    /\ Len(table.data_rows) = 2

\* The role restructure_degenerate reads from a data row, <<>> when it reads
\* none.
RowRole(row, title) ==
    IF row = <<>> THEN <<>>
    ELSE IF title # <<>> /\ Len(row) > 1 THEN CleanLabel(row[2])
    ELSE CleanLabel(row[1])

\* The roles of t in the order they are met: the role of the header row, if it
\* has one, then those of the data rows.
RolesMet(t) ==
    [n \in 1..Len(HeaderRoles(t.header_cells)) |-> HeaderRoles(t.header_cells)[n].role]
        \o [n \in 1..Len(t.data_rows) |-> RowRole(t.data_rows[n], TitleOf(t))]

\* The non-empty members of seq, each once, in the order of their first
\* occurrence.
FirstSeen(seq) ==
    LET firsts == Ascending({k \in 1..Len(seq) :
                                seq[k] # <<>> /\ \A j \in 1..(k - 1) : seq[j] # seq[k]})
    IN  [n \in 1..Len(firsts) |-> seq[firsts[n]]]

\* The level-3 heading lines of ls, in order.
HeadingLines(ls) ==
    LET at == Ascending({k \in 1..Len(ls) : IsHeading(ls[k])})
    IN  [n \in 1..Len(at) |-> ls[at[n]]]

\* Each role of t has exactly one heading in ls, in first-seen order.
OneHeadingPerRole(ls, t) ==
    LET roles == FirstSeen(RolesMet(t))
    IN  HeadingLines(ls) = [n \in 1..Len(roles) |-> Heading(roles[n])]

\* No two bullet lines of ls under the same heading are equal.
BulletsDistinct(ls) ==
    \A i, j \in 1..Len(ls) :
        i < j /\ IsBullet(ls[i]) /\ IsBullet(ls[j]) /\ HeadingAbove(ls, i) = HeadingAbove(ls, j)
            => ls[i] # ls[j]

\* C16: in the text restructure_degenerate returns each role has exactly one
\* level-3 heading, the headings stand in the order the roles were first seen,
\* and no two bullets under one heading are the same string.
C16_OneHeadingDistinctBullets ==
    pc = "restructured" =>
        OneHeadingPerRole(RestructuredLines, table) /\ BulletsDistinct(RestructuredLines)

\* l is a blank line, a level-2 or level-3 heading, or a bullet.
HeadingBulletOrBlank(l) ==
    \/ l = <<>>
    \/ StartsWith(l, <<"#", "#", " ">>)
    \/ IsHeading(l)
    \/ IsBullet(l)

\* Every line of ls is a heading, a bullet or blank, and none is a table row.
NoTableLines(ls) ==
    \A k \in 1..Len(ls) : HeadingBulletOrBlank(ls[k]) /\ ~_is_table_row(ls[k])

\* C18: the text restructure_degenerate returns holds no table: each of its
\* lines is a heading, a bullet or blank, none is a pipe-table row, and
\* find_tables finds no table in it.
C18_ReplacementHoldsNoTable ==
    /\ pc \in {"restructured", "searched"} => NoTableLines(RestructuredLines)
    /\ pc = "searched" => tables = <<>>

\* find_tables has searched the replacement of a degenerate table, which has a
\* title, a role heading and a bullet.
C18_Witness ==
    /\ pc = "searched"
    /\ verdict = TRUE
    /\ \E i, j, k \in 1..Len(RestructuredLines) :
           /\ StartsWith(RestructuredLines[i], <<"#", "#", " ">>)
           /\ IsHeading(RestructuredLines[j])
           /\ IsBullet(RestructuredLines[k])

-----------------------------------------------------------------------------
(* Specification SpecMerge: one call of _merge_short_fragments on a list   *)
(* of up to MaxItems items.                                                *)

MaxItems == 3

\* Items: alphabetic fragments of 1, 2 and 4 characters, a short item with a
\* digit, and items longer than FRAG_LEN.
FragmentItems ==
    {<<"S">>, <<"Y", "E">>, <<"a", "b", "c", "d">>, <<"a", "1">>,
     <<"a", "b", "c", "d", "e">>, Consulting}

InitMerge ==
    /\ pc = "merge"
    /\ cells \in SeqsUpTo(FragmentItems, MaxItems)
    /\ result = Unused
    /\ line = Unused /\ markdown = Unused /\ tables = Unused /\ lines = Unused
    /\ todo = Unused /\ table = Unused /\ verdict = Unused /\ cleaned = Unused /\ LaterUnused

MergeFragments ==
    /\ pc = "merge"
    /\ result' = _merge_short_fragments(cells)
    /\ pc' = "merged"
    /\ UNCHANGED <<later_vars, line, cells, markdown, tables, lines, todo, table, verdict, cleaned>>

NextMerge == MergeFragments

SpecMerge == InitMerge /\ [][NextMerge]_vars

\* s is alphabetic and has at most FRAG_LEN characters.
ShortAlpha(s) == IsAlpha(s) /\ Len(s) <= FRAG_LEN

\* C17: for an item list [a, mid, b] with a and b alphabetic of at most 4
\* characters and mid longer than 4 characters, _merge_short_fragments returns
\* [a + b, mid].
C17_SplitWordJoinedMidKept ==
    pc = "merged" /\ Len(cells) = 3
        /\ ShortAlpha(cells[1]) /\ ShortAlpha(cells[3]) /\ Len(cells[2]) > FRAG_LEN
        => result = <<cells[1] \o cells[3], cells[2]>>

\* The characters of all the items of a list, in order.
RECURSIVE AllChars(_)
AllChars(items) == IF items = <<>> THEN <<>> ELSE Head(items) \o AllChars(Tail(items))

\* How often the character c stands in s.
Occurrences(s, c) == Cardinality({k \in 1..Len(s) : s[k] = c})

\* a and b hold the same characters other than whitespace, each as often.
SameNonSpaceChars(a, b) ==
    \A c \in (Range(AllChars(a)) \cup Range(AllChars(b))) :
        IsSpace(c) \/ Occurrences(AllChars(a), c) = Occurrences(AllChars(b), c)

\* The list the second pass of _merge_short_fragments works on.
AfterFirstPass(items) == _merge_nonadjacent_alpha_fragments(items, FRAG_LEN)

\* C29: _merge_short_fragments returns a list that is no longer than its
\* input and whose items together hold exactly the input's non-space
\* characters, each as often; a short item in last position of the second
\* pass is the end of the last output item, which holds more than it.
C29_MergingKeepsEveryCharacter ==
    pc = "merged" =>
        /\ Len(result) <= Len(cells)
        /\ SameNonSpaceChars(result, cells)
        /\ Len(cells) >= 2 /\ Len(AfterFirstPass(cells)[Len(AfterFirstPass(cells))]) <= FRAG_LEN
               => /\ result # <<>>
                  /\ Len(result) < Len(AfterFirstPass(cells))
                  /\ EndsWith(result[Len(result)], AfterFirstPass(cells)[Len(AfterFirstPass(cells))])

\* A short item after a long one was appended to it with a space.
C29_Witness ==
    /\ pc = "merged"
    /\ cells = <<<<"a", "b", "c", "d", "e">>, Consulting, <<"a", "1">>>>
    /\ result = <<<<"a", "b", "c", "d", "e">>, Consulting \o <<" ", "a", "1">>>>

-----------------------------------------------------------------------------
(* Quality scoring: score_quality (utils/quality_scorer.py).  A character  *)
(* that a string constant cannot hold is written as the name of its code   *)
(* point.                                                                  *)

\* A character of U+00C0 to U+024F (e with acute accent) and one outside it
\* (rightwards arrow).
LatinExtended == {"U+00E9"}
OtherNonAscii == {"U+2192"}

NonAscii == LatinExtended \cup OtherNonAscii

\* c.isalpha() and c.isalnum() of one character.
IsAlphaChar(c) == c \in Letters \cup LatinExtended

IsAlnumChar(c) == IsAlphaChar(c) \/ c \in Digits

\* The first index from i on whose character is not whitespace, Len(s) + 1
\* when there is none.
AfterSpaces(s, i) ==
    CHOOSE j \in i..(Len(s) + 1) :
        /\ j = Len(s) + 1 \/ ~IsSpace(s[j])
        /\ \A k \in i..(j - 1) : IsSpace(s[k])

\* markdown.split(): the indices at which a token starts, and the token that
\* starts at i.
TokenStarts(s) == {i \in 1..Len(s) : ~IsSpace(s[i]) /\ (i = 1 \/ IsSpace(s[i - 1]))}

TokenAt(s, i) ==
    SubSeq(s, i, CHOOSE j \in i..Len(s) :
                     /\ j = Len(s) \/ IsSpace(s[j + 1])
                     /\ \A k \in i..j : ~IsSpace(s[k]))

\* t.isalpha() and len(t) >= 2
IsWord(t) == Len(t) >= 2 /\ \A n \in 1..Len(t) : IsAlphaChar(t[n])

_word_density(text) ==
    LET tokens == TokenStarts(text)
        word_count == Cardinality({i \in tokens : IsWord(TokenAt(text, i))})
    IN  IF tokens = {} THEN FZero ELSE FRatio(word_count, Cardinality(tokens))

\* The grave accent, written as the name of its code point.
BACKTICK == "U+0060"

\* The Markdown syntax tokens that are never garbled.
SyntaxTokens ==
    {<<"#">>, <<"#", "#">>, <<"#", "#", "#">>, <<"#", "#", "#", "#">>,
     <<"#", "#", "#", "#", "#">>, <<"#", "#", "#", "#", "#", "#">>,
     <<"-">>, <<"*">>, <<">">>, <<"-", "-", "-">>, <<"*", "*", "*">>, <<PIPE>>,
     <<BACKTICK, BACKTICK, BACKTICK>>}

\* len(token) >= 3 and alpha_count < len(token) * 0.4, for tokens of fewer
\* than 2^IntBits characters.
FewAlnum(token) ==
    LET alpha_count == Cardinality({n \in 1..Len(token) : IsAlnumChar(token[n])})
    IN  Len(token) >= 3 /\ FGt(FMul(FInt(Len(token)), FRatio(2, 5)), FInt(alpha_count))

\* re.search for a run of three or more characters outside ASCII in token.
HasNonAsciiRun(token) ==
    \E n \in 1..(Len(token) - 2) :
        token[n] \in NonAscii /\ token[n + 1] \in NonAscii /\ token[n + 2] \in NonAscii

\* re.sub that removes the characters U+00C0 to U+024F from token.
NotLatinExtended(c) == c \notin LatinExtended

WithoutLatinExtended(token) == SelectSeq(token, NotLatinExtended)

\* The token counts as garbled.
IsGarbled(token) ==
    /\ token \notin SyntaxTokens
    /\ \/ FewAlnum(token)
       \/ HasNonAsciiRun(token) /\ HasNonAsciiRun(WithoutLatinExtended(token))

\* max(0.0, 1.0 - penalty)
OneMinusFloored(penalty) == IF FGe(FOne, penalty) THEN FSub(FOne, penalty) ELSE FZero

\* A faulty variant of _garbled_ratio: the penalty itself is returned.
GarbledPenalty(text) ==
    LET tokens == TokenStarts(text)
        garbled == Cardinality({i \in tokens : IsGarbled(TokenAt(text, i))})
    IN  IF tokens = {} THEN FZero
        ELSE FMul(FRatio(garbled, Cardinality(tokens)), FRatio(3, 2))

_garbled_ratio(text) ==
    LET tokens == TokenStarts(text)
        garbled == Cardinality({i \in tokens : IsGarbled(TokenAt(text, i))})
    IN  IF tokens = {} THEN FZero
        ELSE OneMinusFloored(FMul(FRatio(garbled, Cardinality(tokens)), FRatio(3, 2)))

_content_length_score(text) ==
    LET length == Len(Strip(text))
    IN  IF length = 0 THEN FZero
        ELSE IF length < 20 THEN FRatio(1, 10)
        ELSE IF length < 50 THEN FRatio(3, 10)
        ELSE IF length < 100 THEN FHalf
        ELSE IF length < 200 THEN FRatio(7, 10)
        ELSE IF length < 500 THEN FRatio(17, 20)
        ELSE FOne

\* The number of blank lines among ls, the lines of markdown.
BlankCount(ls) == Cardinality({n \in 1..Len(ls) : Strip(ls[n]) = <<>>})

\* The steps of _whitespace_score on the blank ratio.
WhitespaceSteps(blank_ratio) ==
    IF FGe(FRatio(3, 10), blank_ratio) THEN FOne
    ELSE IF FGe(FHalf, blank_ratio) THEN FRatio(4, 5)
    ELSE IF FGe(FRatio(7, 10), blank_ratio) THEN FHalf
    ELSE FRatio(1, 5)

_whitespace_score(text) ==
    WhitespaceSteps(FRatio(BlankCount(SplitLines(text)), Len(SplitLines(text))))

\* The indices at which ^ matches under re.MULTILINE.
LineStarts(s) == {1} \cup {i + 1 : i \in {j \in 1..Len(s) : s[j] = NL}}

\* The pattern "\s+\S" matches at index i.
GapThenText(s, i) == i <= Len(s) /\ IsSpace(s[i]) /\ AfterSpaces(s, i) <= Len(s)

\* re.search(r"^#{1,6}\s+\S", markdown, re.MULTILINE)
HasHeading(s) ==
    \E p \in LineStarts(s), k \in 1..6 :
        /\ p + k - 1 <= Len(s)
        /\ \A n \in p..(p + k - 1) : s[n] = "#"
        /\ GapThenText(s, p + k)

\* re.search(r"^[\s]*[-*+]\s+\S", markdown, re.MULTILINE)
HasBullet(s) ==
    \E p \in LineStarts(s) :
        LET q == AfterSpaces(s, p)
        IN  q <= Len(s) /\ s[q] \in {"-", "*", "+"} /\ GapThenText(s, q + 1)

\* re.search(r"^[\s]*\d+\.\s+\S", markdown, re.MULTILINE)
HasNumbered(s) ==
    \E p \in LineStarts(s) :
        LET q == AfterSpaces(s, p)
        IN  \E r \in (q + 1)..Len(s) :
                /\ \A n \in q..(r - 1) : s[n] \in Digits
                /\ s[r] = "."
                /\ GapThenText(s, r + 1)

\* re.search(r"\|.*\|", markdown)
HasTableLine(s) ==
    \E i, j \in 1..Len(s) :
        i < j /\ s[i] = PIPE /\ s[j] = PIPE /\ \A n \in i..j : s[n] # NL

\* The index after the first match of "\S[\s\S]*?\n\n" from index i on, 0 when
\* there is no match.
ParagraphEnd(s, i) ==
    LET start == AfterSpaces(s, i)
        breaks == {j \in (start + 1)..(Len(s) - 1) : s[j] = NL /\ s[j + 1] = NL}
    IN  IF breaks = {} THEN 0
        ELSE (CHOOSE j \in breaks : \A k \in breaks : j <= k) + 2

\* len(re.findall(r"\S[\s\S]*?\n\n", markdown)) >= 2
HasParagraphs(s) == ParagraphEnd(s, 1) # 0 /\ ParagraphEnd(s, ParagraphEnd(s, 1)) # 0

\* indicators_found
Indicators(s) ==
    Cardinality({n \in 1..5 :
        \/ n = 1 /\ HasHeading(s)
        \/ n = 2 /\ HasBullet(s)
        \/ n = 3 /\ HasNumbered(s)
        \/ n = 4 /\ HasTableLine(s)
        \/ n = 5 /\ HasParagraphs(s)})

\* The score of _structure_score for the number of indicators found.
StructureSteps(text, indicators_found) ==
    IF indicators_found = 0
    THEN IF Len(SplitLines(text)) - BlankCount(SplitLines(text)) >= 3
         THEN FRatio(2, 5) ELSE FRatio(1, 5)
    ELSE IF indicators_found = 1 THEN FRatio(3, 5)
    ELSE IF indicators_found = 2 THEN FRatio(4, 5)
    ELSE FOne

_structure_score(text) == StructureSteps(text, Indicators(text))

\* The argument of score_quality is <<>> for None and <<text>> for a string.
\* A faulty variant of ReturnsEarly: only None and "" return early.
ReturnsEarlyUnstripped(arg) == IF arg = <<>> THEN TRUE ELSE arg[1] = <<>>

\* not markdown or not markdown.strip()
ReturnsEarly(arg) ==
    IF arg = <<>> THEN TRUE ELSE IF arg[1] = <<>> THEN TRUE ELSE Strip(arg[1]) = <<>>

\* The list scores of score_quality: pairs of a sub-score and its weight.
Scores(text) ==
    <<<<_word_density(text), FRatio(1, 4)>>,
      <<_garbled_ratio(text), FRatio(1, 4)>>,
      <<_content_length_score(text), FRatio(1, 5)>>,
      <<_whitespace_score(text), FRatio(3, 20)>>,
      <<_structure_score(text), FRatio(3, 20)>>>>

\* sum(score * weight for score, weight in scores)
WeightedSum(scores) ==
    LET products == [n \in 1..Len(scores) |-> FMul(scores[n][1], scores[n][2])]
    IN  IF products = products THEN FSum(products) ELSE FZero

score_quality(arg) == IF ReturnsEarly(arg) THEN FZero ELSE WeightedSum(Scores(arg[1]))

-----------------------------------------------------------------------------
(* Specification SpecScore: one call of score_quality, one step per        *)
(* statement of its body.                                                  *)

MaxScoreBlocks == 2

\* Blocks of lines: an empty line, blanks, a heading, a bullet with a numbered
\* item, a table row, punctuation, two paragraphs, and tokens with characters
\* outside ASCII.
ScoreBlocks ==
    {<<>>, <<" ", " ">>, <<"#", " ", "H", "i">>,
     <<"-", " ", "a", "b", NL, "1", ".", " ", "a", "b">>,
     <<PIPE, "a", PIPE, "b", PIPE>>,
     <<"@", "#", "$", "%">>,
     <<"a", "b", " ", "c", "d", NL, NL, "e", "f", NL, NL>>,
     <<"a", "b", "U+2192", "U+2192", "U+2192", " ", "U+00E9", "U+00E9", "U+00E9">>}

\* Prose of n characters: words of two letters.
Prose(n) == [i \in 1..n |-> IF i % 3 = 0 /\ i < n THEN " " ELSE "a"]

\* Lengths on both sides of each step of _content_length_score.
ProseLengths == {19, 20, 49, 50, 99, 100, 199, 200, 499, 500}

\* The arguments: None, texts of up to MaxScoreBlocks blocks, and prose.
ScoreInputs ==
    {<<>>}
        \cup {<<JoinLines(bs)>> : bs \in SeqsUpTo(ScoreBlocks, MaxScoreBlocks)}
        \cup {<<Prose(n)>> : n \in ProseLengths}

InitScore ==
    /\ pc = "score"
    /\ markdown \in ScoreInputs
    /\ todo = Unused /\ result = Unused
    /\ line = Unused /\ cells = Unused /\ tables = Unused /\ lines = Unused
    /\ table = Unused /\ verdict = Unused /\ cleaned = Unused /\ LaterUnused

ScoreReturnZero ==
    /\ pc = "score"
    /\ ReturnsEarly(markdown)
    /\ result' = FZero
    /\ pc' = "score_done"
    /\ UNCHANGED <<later_vars, line, cells, markdown, tables, lines, todo, table, verdict, cleaned>>

ScoreParts ==
    /\ pc = "score"
    /\ ~ReturnsEarly(markdown)
    /\ todo' = Scores(markdown[1])
    /\ pc' = "sum"
    /\ UNCHANGED <<later_vars, line, cells, markdown, tables, lines, result, table, verdict, cleaned>>

ScoreSum ==
    /\ pc = "sum"
    /\ result' = WeightedSum(todo)
    /\ pc' = "score_done"
    /\ UNCHANGED <<later_vars, line, cells, markdown, tables, lines, todo, table, verdict, cleaned>>

NextScore == ScoreReturnZero \/ ScoreParts \/ ScoreSum

SpecScore == InitScore /\ [][NextScore]_vars

\* f lies in [0, 1].
InUnit(f) == FGe(f, FZero) /\ FGe(FOne, f)

\* Every sub-score of the list scores lies in [0, 1].
SubScoresInUnit(scores) == \A n \in 1..Len(scores) : InUnit(scores[n][1])

\* The weights of the list scores are 0.25, 0.25, 0.20, 0.15 and 0.15, and
\* their float sum is 1.
WeightsSumToOne(scores) ==
    /\ [n \in 1..Len(scores) |-> scores[n][2]]
           = <<FRatio(1, 4), FRatio(1, 4), FRatio(1, 5), FRatio(3, 20), FRatio(3, 20)>>
    /\ FSum([n \in 1..Len(scores) |-> scores[n][2]]) = FOne

\* C19: score_quality returns a value in [0.0, 1.0] for every argument; each of
\* the five sub-scores lies in [0, 1], on the texts that return early as well,
\* and the weights sum to 1.
C19_ScoreInUnitInterval ==
    /\ pc = "sum" => SubScoresInUnit(todo) /\ WeightsSumToOne(todo)
    /\ pc = "score_done" => InUnit(result)
    /\ pc = "score_done" /\ markdown # <<>> => SubScoresInUnit(Scores(markdown[1]))

\* A text has been scored whose word density, garbled ratio, length score and
\* whitespace score are all 1.
C19_Witness ==
    /\ pc = "score_done"
    /\ todo # Unused
    /\ \A n \in 1..4 : todo[n][1] = FOne

\* The argument is None or a text of whitespace only.
BlankInput(arg) == IF arg = <<>> THEN TRUE ELSE \A n \in 1..Len(arg[1]) : IsSpace(arg[1][n])

\* C20: score_quality returns exactly 0.0 for None, the empty text and
\* whitespace-only text, and a value above 0 for every other text; on those the
\* length, whitespace and structure sub-scores are at least 0.1, 0.2 and 0.2.
C20_ZeroExactlyForBlank ==
    /\ pc = "score_done" => (result = FZero <=> BlankInput(markdown))
    /\ pc = "sum" =>
           /\ FGe(todo[3][1], FRatio(1, 10))
           /\ FGe(todo[4][1], FRatio(1, 5))
           /\ FGe(todo[5][1], FRatio(1, 5))

\* A text that is not blank has been scored whose word density and garbled
\* ratio are both 0.
C20_Witness ==
    /\ pc = "score_done"
    /\ ~BlankInput(markdown)
    /\ todo[1][1] = FZero
    /\ todo[2][1] = FZero

-----------------------------------------------------------------------------
(* Specification SpecPost: postprocess_tables on documents of up to        *)
(* MaxLines lines, one step per statement of its body.                     *)

MaxLines == 4

WideRow == <<PIPE>> \o Join([n \in 1..MIN_COLUMNS_FOR_DEGENERATE |-> <<"a", PIPE>>], <<>>)
WideSeparator == <<PIPE>> \o Join([n \in 1..MIN_COLUMNS_FOR_DEGENERATE |-> <<"-", PIPE>>], <<>>)

\* The lines documents are made of: a blank line, text, a row, a separator, a
\* row of one empty cell, and a row and a separator wide enough to be degenerate.
LineKinds ==
    {<<>>, <<"x">>, <<PIPE, "a", PIPE, "b", PIPE>>, <<PIPE, "-", PIPE, "-", PIPE>>,
     <<PIPE, " ", PIPE>>, WideRow, WideSeparator}

Documents == UNION {[1..n -> LineKinds] : n \in 1..MaxLines}

\* reversed(tables)
Reversed(s) == [n \in 1..Len(s) |-> s[Len(s) + 1 - n]]

\* The replacement text chosen for a table in the loop of postprocess_tables.
Replacement(t) == IF is_degenerate(t) THEN restructure_degenerate(t) ELSE clean_table(t)

\* A faulty variant of Splice: the slice also takes the line after the table.
SpliceOneMore(ls, start, end, replacement_lines) ==
    SubSeq(ls, 1, start) \o replacement_lines \o SubSeq(ls, end + 3, Len(ls))

\* lines[start : end + 1] = replacement_lines
Splice(ls, start, end, replacement_lines) ==
    SubSeq(ls, 1, start) \o replacement_lines \o SubSeq(ls, end + 2, Len(ls))

InitPost ==
    /\ pc = "find"
    /\ \E doc \in Documents : markdown = JoinLines(doc)
    /\ tables = Unused /\ lines = Unused /\ todo = Unused /\ result = Unused
    /\ line = Unused /\ cells = Unused /\ table = Unused /\ verdict = Unused
    /\ cleaned = Unused /\ LaterUnused

\* tables = find_tables(markdown), with no table found: return markdown.
PostNoTables ==
    /\ pc = "find"
    /\ find_tables(markdown) = <<>>
    /\ tables' = <<>>
    /\ result' = markdown
    /\ pc' = "done"
    /\ UNCHANGED <<later_vars, line, cells, markdown, lines, todo, table, verdict, cleaned>>

\* tables = find_tables(markdown); lines = markdown.split("\n"), entering the loop.
PostFind ==
    /\ pc = "find"
    /\ find_tables(markdown) # <<>>
    /\ tables' = find_tables(markdown)
    /\ lines' = SplitLines(markdown)
    /\ todo' = Reversed(tables')
    /\ pc' = "splice"
    /\ UNCHANGED <<later_vars, line, cells, markdown, result, table, verdict, cleaned>>

\* One iteration of the loop over reversed(tables).
PostSplice ==
    /\ pc = "splice"
    /\ todo # <<>>
    /\ LET t == Head(todo)
       IN  lines' = Splice(lines, t.start_line, t.end_line, SplitLines(Replacement(t)))
    /\ todo' = Tail(todo)
    /\ UNCHANGED <<later_vars, pc, line, cells, markdown, tables, result, table, verdict, cleaned>>

\* return "\n".join(lines)
PostReturn ==
    /\ pc = "splice"
    /\ todo = <<>>
    /\ result' = JoinLines(lines)
    /\ pc' = "done"
    /\ UNCHANGED <<later_vars, line, cells, markdown, tables, lines, todo, table, verdict, cleaned>>

NextPost == PostNoTables \/ PostFind \/ PostSplice \/ PostReturn

SpecPost == InitPost /\ [][NextPost]_vars

\* find_tables has returned.
Found == pc \in {"splice", "done"}

\* The line indices of a table's span.
Span(t) == t.start_line .. t.end_line

\* C1: the spans of the tables find_tables returns are pairwise disjoint.
C1_SpansDisjoint ==
    Found => \A m, n \in 1..Len(tables) :
                 m # n => Span(tables[m]) \cap Span(tables[n]) = {}

\* markdown.split("\n"): the lines find_tables and postprocess_tables index.
InputLines == SplitLines(markdown)

\* C8: every table found has 0 <= start_line < end_line < number of lines, a
\* table row as header at start_line, a separator line at start_line + 1 whose
\* cell count differs from the header's by at most 1, end_line = start_line +
\* 1 + len(data_rows), and as data_rows the split cells of the lines
\* start_line + 2 .. end_line in document order.
C8_TableShape ==
    Found => \A n \in 1..Len(tables) :
        LET t == tables[n]
            sep_cells == _split_row(LineAt(InputLines, t.start_line + 1))
        IN  /\ 0 <= t.start_line
            /\ t.start_line < t.end_line
            /\ t.end_line < Len(InputLines)
            /\ _is_table_row(LineAt(InputLines, t.start_line))
            /\ t.header_cells = _split_row(LineAt(InputLines, t.start_line))
            /\ _is_separator_line(LineAt(InputLines, t.start_line + 1))
            /\ Abs(Len(t.header_cells) - Len(sep_cells)) <= 1
            /\ t.end_line = t.start_line + 1 + Len(t.data_rows)
            /\ t.data_rows = [k \in 1..(t.end_line - t.start_line - 1) |->
                                 _split_row(LineAt(InputLines, t.start_line + 1 + k))]

\* A table with a data row whose header and separator cell counts differ.
C8_Witness ==
    /\ Found
    /\ \E n \in 1..Len(tables) :
           /\ Len(tables[n].data_rows) >= 1
           /\ Len(tables[n].header_cells)
                  # Len(_split_row(LineAt(InputLines, tables[n].start_line + 1)))

\* The first index from j on whose line is not a table row, the number of lines
\* when there is none.
FirstNonRow(ls, j) ==
    LET stops == {k \in j..(Len(ls) - 1) : ~_is_table_row(LineAt(ls, k))}
    IN  IF stops = {} THEN Len(ls)
        ELSE CHOOSE k \in stops : \A m \in stops : k <= m

\* The split cells of the lines j .. FirstNonRow - 1 that are not separator lines.
RowsUntilNonRow(ls, j) ==
    LET kept == Ascending({k \in j..(FirstNonRow(ls, j) - 1) : ~_is_separator_line(LineAt(ls, k))})
    IN  [k \in 1..Len(kept) |-> _split_row(LineAt(ls, kept[k]))]

\* C9: the data rows of a table are all the table-row lines that are not
\* separator lines, from the line after its separator up to the first line
\* that is not a table row; a row that passes the separator test does not end
\* the table.
C9_DataRowsUntilNonRow ==
    Found => \A n \in 1..Len(tables) :
                 tables[n].data_rows = RowsUntilNonRow(InputLines, tables[n].start_line + 2)

\* C2: the tables are spliced from the highest start_line down, and when a
\* table is spliced the working lines at start_line .. end_line are still its
\* original lines.
C2_SpliceSeesOriginalLines ==
    pc = "splice" =>
        /\ \A m, n \in 1..Len(todo) : m < n => todo[m].start_line > todo[n].start_line
        /\ todo # <<>> =>
               LET t == Head(todo)
               IN  /\ t.end_line < Len(lines)
                   /\ SubSeq(lines, t.start_line + 1, t.end_line + 1)
                          = SubSeq(InputLines, t.start_line + 1, t.end_line + 1)

\* Line k of the input lies in the span of some table.
InSpan(k) == \E n \in 1..Len(tables) : k \in Span(tables[n])

\* By how many lines the replacements of the tables tables[n..] that end
\* before line k move it.
RECURSIVE ShiftFrom(_, _)
ShiftFrom(n, k) ==
    IF n > Len(tables) THEN 0
    ELSE LET t == tables[n]
             grown == Len(SplitLines(Replacement(t))) - (t.end_line - t.start_line + 1)
         IN  (IF t.end_line < k THEN grown ELSE 0) + ShiftFrom(n + 1, k)

\* C3: every input line outside all table spans is in the output verbatim, at
\* its input position moved by the size changes of the tables before it (so in
\* the same relative order); with no table the output is the input.
C3_OutsideLinesKept ==
    pc = "done" =>
        /\ tables = <<>> => result = markdown
        /\ \A k \in 0..(Len(InputLines) - 1) :
               ~InSpan(k) =>
                   /\ k + ShiftFrom(1, k) \in 0..(Len(SplitLines(result)) - 1)
                   /\ LineAt(SplitLines(result), k + ShiftFrom(1, k)) = LineAt(InputLines, k)

\* A rewritten document with a line kept before and a line kept after a table.
C3_Witness ==
    /\ pc = "done"
    /\ tables # <<>>
    /\ result # markdown
    /\ \E k \in 0..(Len(InputLines) - 1) : ~InSpan(k) /\ k < tables[1].start_line
    /\ \E k \in 0..(Len(InputLines) - 1) : ~InSpan(k) /\ k > tables[Len(tables)].end_line

-----------------------------------------------------------------------------
(* Exceptions.  For each function of the post-processing core, the set of  *)
(* exceptions that escape a call: every subscript, division and integer    *)
(* parse the call performs is taken with the arguments the code gives it,  *)
(* under the tests the code makes before it.                               *)

\* s[i] for a list or a str: IndexError unless -len(s) <= i < len(s).
Subscript(s, i) == IF -Len(s) <= i /\ i < Len(s) THEN {} ELSE {"IndexError"}

\* s[i] evaluated only where test holds.
Guarded(test, s, i) == IF test THEN Subscript(s, i) ELSE {}

\* a / b
Divide(b) == IF b = 0 THEN {"ZeroDivisionError"} ELSE {}

\* int(v)
IntRaises(v) == IF ParseInt(v).ok THEN {} ELSE {"ValueError"}

\* Line i is in the span of a table whose separator comes before it.
UsedAt(found, i) ==
    \E n \in 1..Len(found) : found[n].start_line + 1 < i /\ i <= found[n].end_line

\* lines[i - 1] for a separator line i that is not used yet.
HeaderLineRaises(ls, found, i) ==
    IF UsedAt(found, i) \/ ~_is_separator_line(ls[i + 1]) THEN {}
    ELSE Guarded(i # 0, ls, i - 1)

\* lines[j] in the test of the loop over the data rows of table t.
DataLineRaises(ls, t) ==
    UNION {Guarded(j < Len(ls), ls, j) : j \in (t.start_line + 2)..(t.end_line + 1)}

FindRaises(ls, found) ==
    UNION {HeaderLineRaises(ls, found, i) : i \in 0..(Len(ls) - 1)}
        \cup UNION {DataLineRaises(ls, found[n]) : n \in 1..Len(found)}

FindTablesRaises(text) == FindRaises(SplitLines(text), find_tables(text))

\* _row_duplication_ratio
RowDuplicationRaises(cs) ==
    IF NonEmpty(cs) = <<>> THEN {} ELSE Divide(Len(NonEmpty(cs)))

\* _generic_header_ratio
GenericHeaderRaises(headers) ==
    IF NonEmpty(headers) = <<>> THEN {} ELSE Divide(Len(NonEmpty(headers)))

IsDegenerateRaises(t) ==
    IF Len(t.header_cells) < MIN_COLUMNS_FOR_DEGENERATE THEN {}
    ELSE GenericHeaderRaises(t.header_cells)
             \cup (IF t.data_rows # <<>>
                   THEN UNION {RowDuplicationRaises(t.data_rows[n]) : n \in 1..Len(t.data_rows)}
                            \cup Divide(Len(t.data_rows))
                   ELSE {})

\* The non-empty values _infer_column_name collects from a column.
ColumnValues(col_index, data_rows) ==
    LET with_col == SelectSeq(data_rows, LAMBDA row : col_index < Len(row))
        all_values == [n \in 1..Len(with_col) |-> Strip(_clean_br(with_col[n][col_index + 1]))]
    IN  SelectSeq(all_values, LAMBDA v : v # <<>>)

\* The try block of _infer_column_name: the parse of each value, then ints[0].
InferTryRaises(values) ==
    LET parses == UNION {IntRaises(values[n]) : n \in 1..Len(values)}
    IN  IF parses # {} THEN parses ELSE Subscript(values, 0)

\* A faulty variant of InferColumnNameRaises: no return before the try block
\* when the column holds no value.
InferColumnNameRaisesEmpty(col_index, data_rows) ==
    UNION {Guarded(col_index < Len(data_rows[n]), data_rows[n], col_index) :
               n \in 1..Len(data_rows)}
        \cup (InferTryRaises(ColumnValues(col_index, data_rows)) \ {"ValueError", "TypeError"})

\* _infer_column_name: row[col_index] under its length test, and what the
\* except clause for ValueError and TypeError lets through.
InferColumnNameRaises(col_index, data_rows) ==
    UNION {Guarded(col_index < Len(data_rows[n]), data_rows[n], col_index) :
               n \in 1..Len(data_rows)}
        \cup (IF ColumnValues(col_index, data_rows) = <<>> THEN {}
              ELSE InferTryRaises(ColumnValues(col_index, data_rows))
                       \ {"ValueError", "TypeError"})

\* The test made before header[i] is read in _is_redundant_subheader.
Compared(row, header, i) ==
    /\ Strip(_clean_br(row[i + 1])) # <<>>
    /\ ~MatchFormatHint(Strip(_clean_br(row[i + 1])))
    /\ i < Len(header)

\* _is_redundant_subheader: header[i] for the cells that are neither empty
\* nor a format hint, and the division by max(len(row), 1).
SubheaderRaises(row, header) ==
    IF row = <<>> THEN {}
    ELSE UNION {Guarded(Compared(row, header, i), header, i) : i \in 0..(Len(row) - 1)}
             \cup Divide(Max(Len(row), 1))

\* The inference made for each generic header cell.
FixHeaderRaises(header, data_rows) ==
    UNION {IF MatchGeneric(Strip(header[i + 1]))
           THEN InferColumnNameRaises(i, data_rows) ELSE {} : i \in 0..(Len(header) - 1)}

\* rows[0] and the test on it.
FirstRowRaises(rows, header) ==
    Guarded(rows # <<>>, rows, 0)
        \cup (IF rows # <<>> THEN SubheaderRaises(rows[1], header) ELSE {})

\* r[ci] and header[ci] in the search for empty columns and in the selection.
KeepColsRaises(header, rows) ==
    UNION {Guarded(ci < Len(rows[n]), rows[n], ci) :
               ci \in 0..(Len(header) - 1), n \in 1..Len(rows)}
        \cup UNION {Guarded(ci < Len(header), header, ci) : ci \in 0..(Len(header) - 1)}

CleanRaises(header, rows) ==
    FirstRowRaises(rows, header) \cup KeepColsRaises(header, WithoutSubheader(rows, header))

CleanTableRaises(t) ==
    FixHeaderRaises(CleanCells(t.header_cells), t.data_rows)
        \cup CleanRaises(FixedHeader(CleanCells(t.header_cells), t.data_rows),
                        [n \in 1..Len(t.data_rows) |-> CleanCells(t.data_rows[n])])

\* merged[-1] for a short last item of the list left by the first pass.
LastItemRaises(first, merged) ==
    Guarded(Len(first) > 0 /\ Len(first[Len(first)]) <= FRAG_LEN /\ Len(merged) > 0,
            merged, -1)

\* _merge_short_fragments
MergeRaises(items) ==
    IF Len(items) <= 1 THEN {}
    ELSE LastItemRaises(_merge_nonadjacent_alpha_fragments(items, FRAG_LEN),
                        _merge_short_fragments(items))

\* row[role_col] where role_col < len(row), for a non-empty row.
RoleRaises(row, title) ==
    IF row = <<>> THEN {}
    ELSE IF title # <<>> /\ Len(row) > 1 THEN Guarded(1 < Len(row), row, 1)
    ELSE Guarded(0 < Len(row), row, 0)

\* The merging of the items of each role.
SectionRaises(entries) == UNION {MergeRaises(entries[n].items) : n \in 1..Len(entries)}

\* restructure_degenerate: r[0] of the non-empty rows, header_cells[1],
\* row[role_col], and the merging of each role's items.
RestructureRaises(t) ==
    UNION {Guarded(t.data_rows[n] # <<>>, t.data_rows[n], 0) : n \in 1..Len(t.data_rows)}
        \cup Guarded(Len(t.header_cells) > 1, t.header_cells, 1)
        \cup UNION {RoleRaises(t.data_rows[n], TitleOf(t)) : n \in 1..Len(t.data_rows)}
        \cup SectionRaises(RolesFrom(t.data_rows, 1, TitleOf(t), HeaderRoles(t.header_cells)))

\* The loop of postprocess_tables over reversed(tables).
RECURSIVE SpliceAll(_, _)
SpliceAll(ls, ts) ==
    IF ts = <<>> THEN ls
    ELSE SpliceAll(Splice(ls, Head(ts).start_line, Head(ts).end_line,
                          SplitLines(Replacement(Head(ts)))),
                   Tail(ts))

postprocess_tables(text) ==
    LET found == find_tables(text)
    IN  IF found = <<>> THEN text
        ELSE JoinLines(SpliceAll(SplitLines(text), Reversed(found)))

\* One iteration of the loop of postprocess_tables.
ReplacementRaises(t) ==
    IsDegenerateRaises(t)
        \cup (IF is_degenerate(t) THEN RestructureRaises(t) ELSE CleanTableRaises(t))

PostprocessRaises(text) ==
    FindTablesRaises(text)
        \cup UNION {ReplacementRaises(find_tables(text)[n]) : n \in 1..Len(find_tables(text))}

-----------------------------------------------------------------------------
(* Specification SpecTotal: each function of the core is called on a text  *)
(* of up to MaxTotalLines lines and on every table found in it.            *)

MaxTotalLines == 3

\* A blank line, a header with a generic cell, a separator, a row of one
\* cell, a row whose first cell is empty, a row longer than the header that
\* starts with an integer, and a row and a separator wide enough to be
\* degenerate.
TotalLines ==
    {<<>>, <<PIPE, "C", "o", "l", "1", PIPE, "b", PIPE>>, <<PIPE, "-", PIPE>>,
     <<PIPE, "a", PIPE>>, <<PIPE, " ", PIPE, "x", PIPE>>,
     <<PIPE, "1", PIPE, "x", PIPE, "c", PIPE>>, WideRow, WideSeparator}

TotalDocuments == UNION {[1..n -> TotalLines] : n \in 1..MaxTotalLines}

InitTotal ==
    /\ pc = "find_tables"
    /\ \E doc \in TotalDocuments : markdown = JoinLines(doc)
    /\ raised = {}
    /\ tables = Unused /\ lines = Unused /\ todo = Unused /\ result = Unused
    /\ line = Unused /\ cells = Unused /\ table = Unused /\ verdict = Unused
    /\ cleaned = Unused /\ ConverterUnused /\ PdfUnused

\* find_tables(markdown)
TotalFind ==
    /\ pc = "find_tables"
    /\ tables' = find_tables(markdown)
    /\ todo' = tables'
    /\ raised' = raised \cup FindTablesRaises(markdown)
    /\ pc' = "tables"
    /\ UNCHANGED <<converter_vars, pdf_vars, line, cells, markdown, lines, result, table, verdict, cleaned>>

\* is_degenerate, clean_table and restructure_degenerate on the next table.
TotalTable ==
    /\ pc = "tables"
    /\ todo # <<>>
    /\ table' = Head(todo)
    /\ verdict' = is_degenerate(Head(todo))
    /\ cleaned' = clean_table(Head(todo))
    /\ lines' = SplitLines(restructure_degenerate(Head(todo)))
    /\ raised' = raised \cup IsDegenerateRaises(Head(todo)) \cup CleanTableRaises(Head(todo))
                     \cup RestructureRaises(Head(todo))
    /\ todo' = Tail(todo)
    /\ UNCHANGED <<converter_vars, pdf_vars, pc, line, cells, markdown, tables, result>>

\* postprocess_tables(markdown)
TotalPostprocess ==
    /\ pc = "tables"
    /\ todo = <<>>
    /\ result' = postprocess_tables(markdown)
    /\ raised' = raised \cup PostprocessRaises(markdown)
    /\ pc' = "returned"
    /\ UNCHANGED <<converter_vars, pdf_vars, line, cells, markdown, tables, lines, todo, table, verdict, cleaned>>

NextTotal == TotalFind \/ TotalTable \/ TotalPostprocess

SpecTotal == InitTotal /\ [][NextTotal]_vars

\* C21: on every text, find_tables, is_degenerate, clean_table,
\* restructure_degenerate and postprocess_tables return without raising: no
\* subscript out of range, no division by zero and no failed integer parse
\* escapes any of the calls, and every call comes back with its value.
C21_CoreIsTotal ==
    /\ raised = {}
    /\ pc = "tables" /\ table # Unused => verdict \in BOOLEAN
    /\ pc = "returned" => \A n \in 1..Len(result) : result[n] \in STRING

\* All calls have returned on a text with a table whose generic column holds
\* no value.
C21_Witness ==
    /\ pc = "returned"
    /\ raised = {}
    /\ \E n \in 1..Len(tables) :
           /\ MatchGeneric(tables[n].header_cells[1])
           /\ tables[n].data_rows # <<>>
           /\ ColumnValues(0, tables[n].data_rows) = <<>>

-----------------------------------------------------------------------------
(* The orchestrator (src/src/fileconverter/converter.py) and the path      *)
(* utilities (src/src/fileconverter/utils/file_utils.py).  A Path is a     *)
(* record of its parent, a sequence of directory names, and its name, a    *)
(* str.  None is the empty sequence and any other optional value x is      *)
(* <<x>>.                                                                  *)

\* The characters of file names, in code point order.
CodeOrder == <<".">> \o DigitChars \o UpperLetters \o LowerLetters

Ord(c) == CHOOSE n \in 1..Len(CodeOrder) : CodeOrder[n] = c

\* a < b for two str
RECURSIVE StrLess(_, _)
StrLess(a, b) ==
    IF b = <<>> THEN FALSE
    ELSE IF a = <<>> THEN TRUE
    ELSE IF a[1] = b[1] THEN StrLess(Tail(a), Tail(b))
    ELSE Ord(a[1]) < Ord(b[1])

\* sorted(xs, key=lambda x: name(x).lower()) and xs.sort(key=...), where
\* names[i] is the name of xs[i]: the sort is stable, items with equal keys
\* keep their order.
SortedByLowerName(xs, names) ==
    LET Key(i) == Lower(names[i])
        Before(j, i) == StrLess(Key(j), Key(i)) \/ (Key(j) = Key(i) /\ j < i)
        Pos(i) == Cardinality({j \in 1..Len(xs) : Before(j, i)}) + 1
    IN  [p \in 1..Len(xs) |-> xs[CHOOSE i \in 1..Len(xs) : Pos(i) = p]]

\* A faulty variant of discover_files: the list is returned as it was found.
DiscoveredAsFound(discovered) == discovered

\* discover_files, from the list the globs found: duplicates removed, then
\* sorted by lower-cased name.
discover_files(discovered) ==
    LET first == {n \in 1..Len(discovered) :
                      \A m \in 1..(n - 1) : discovered[m] # discovered[n]}
        unique == SelectSeq([n \in 1..Len(discovered) |-> <<n, discovered[n]>>],
                            LAMBDA e : e[1] \in first)
    IN  SortedByLowerName([n \in 1..Len(unique) |-> unique[n][2]],
                          [n \in 1..Len(unique) |-> unique[n][2].name])

\* The index of the dot that starts Path.suffix, 0 for a name with no suffix.
SuffixDot(name) ==
    LET dots == {n \in 1..Len(name) : name[n] = "."}
        last == IF dots = {} THEN 0 ELSE CHOOSE n \in dots : \A m \in dots : m <= n
    IN  IF 1 < last /\ last < Len(name) THEN last ELSE 0

\* Path.stem
Stem(name) == IF SuffixDot(name) = 0 THEN name ELSE SubSeq(name, 1, SuffixDot(name) - 1)

\* base is parent or one of its ancestors, where relative_to raises no ValueError.
IsRelativeTo(parent, base) ==
    Len(base) <= Len(parent) /\ SubSeq(parent, 1, Len(base)) = base

get_output_path(source_path, output_dir, source_base) ==
    LET output_name == Stem(source_path.name) \o <<".", "m", "d">>
        relative == SubSeq(source_path.parent, Len(source_base[1]) + 1, Len(source_path.parent))
        target_dir == IF source_base # <<>> /\ IsRelativeTo(source_path.parent, source_base[1])
                      THEN output_dir[1] \o relative
                      ELSE output_dir[1]
    IN  IF output_dir = <<>> THEN [parent |-> source_path.parent, name |-> output_name]
        ELSE [parent |-> target_dir, name |-> output_name]

ConversionResult(source_path, output_path, success, text, error) ==
    [source_path |-> source_path, output_path |-> output_path, success |-> success,
     markdown |-> text, error |-> error]

\* The Markdown a converter returns for a file: its parent and its name.
MarkdownOf(source_path) == <<"M", ":">> \o source_path.parent[Len(source_path.parent)]
                               \o <<":">> \o source_path.name

ConversionFailed == <<"C", "o", "n", "v", "e", "r", "s", "i", "o", "n", " ",
                      "f", "a", "i", "l", "e", "d">>

\* convert_file: the result of the converter, which succeeds or fails as the
\* request says.
convert_file(file_path, succeeds) ==
    IF succeeds THEN ConversionResult(file_path, <<>>, TRUE, MarkdownOf(file_path), <<>>)
    ELSE ConversionResult(file_path, <<>>, FALSE, <<>>, <<ConversionFailed>>)

\* convert_and_save: the result, and the write it makes.
SavedResult(res, output_dir, source_base) ==
    IF res.success
    THEN [res EXCEPT !.output_path = <<get_output_path(res.source_path, output_dir, source_base)>>]
    ELSE res

SavedWrite(res, output_dir, source_base, by) ==
    IF res.success
    THEN <<[path |-> get_output_path(res.source_path, output_dir, source_base),
            content |-> res.markdown, by |-> by]>>
    ELSE <<>>

Successful(rs) == SelectSeq(rs, LAMBDA r : r.success)

Separator == <<NL, NL, "-", "-", "-", NL, NL>>

SectionOf(r) == <<"#", " ">> \o r.source_path.name \o <<NL, NL>> \o r.markdown

\* A faulty variant of MergedSections: a section for every result.
MergedSectionsOfAll(rs) == [n \in 1..Len(rs) |-> SectionOf(rs[n])]

\* The sections list of _write_merged.
MergedSections(rs) == [n \in 1..Len(Successful(rs)) |-> SectionOf(Successful(rs)[n])]

\* _write_merged: the write it makes, by the calling thread.
MergedWrite(rs, merged_path) ==
    IF MergedSections(rs) # <<>>
    THEN <<[path |-> merged_path, content |-> Join(MergedSections(rs), Separator) \o <<NL>>,
            by |-> 0]>>
    ELSE <<>>

\* _write_merged: the results after it.
MergedResults(rs, merged_path) ==
    IF MergedSections(rs) # <<>>
    THEN [n \in 1..Len(rs) |->
             IF rs[n].success THEN [rs[n] EXCEPT !.output_path = <<merged_path>>] ELSE rs[n]]
    ELSE rs

-----------------------------------------------------------------------------
(* Specification SpecConvert: one call of convert_batch or of              *)
(* convert_and_merge on up to MaxFiles found files; each task runs in a    *)
(* thread of the executor, and the calling thread collects the results in  *)
(* the order in which the tasks complete.                                  *)

MaxFiles == 2

Name(stem, suffix) == stem \o suffix
Pdf == <<".", "p", "d", "f">>
Docx == <<".", "d", "o", "c", "x">>

\* Files of the source directory: two of the same name but for its case in
\* two directories, two of the same stem in one directory, and one whose
\* name sorts differently once lower-cased.
SourceFiles ==
    {[parent |-> <<"src", "a">>, name |-> Name(<<"x">>, Pdf)],
     [parent |-> <<"src", "b">>, name |-> Name(<<"X">>, Pdf)],
     [parent |-> <<"src", "a">>, name |-> Name(<<"x">>, Docx)],
     [parent |-> <<"src", "a">>, name |-> Name(<<"Y">>, Pdf)]}

MergedPath(output_dir) ==
    [parent |-> IF output_dir = <<>> THEN <<"cwd">> ELSE output_dir[1],
     name |-> <<"m", "e", "r", "g", "e", "d", ".", "m", "d">>]

InitConvert ==
    /\ pc = "discover"
    /\ \E method \in {"convert_batch", "convert_and_merge"},
          output_dir \in {<<>>, <<<<"out">>>>},
          source_base \in {<<>>, <<<<"src">>>>},
          discovered \in SeqsUpTo(SourceFiles, MaxFiles) \ {<<>>} :
          \E succeeds \in [1..Len(discover_files(discovered)) -> BOOLEAN] :
              request = [method |-> method, output_dir |-> output_dir,
                         source_base |-> IF method = "convert_batch" THEN source_base ELSE <<>>,
                         discovered |-> discovered, succeeds |-> succeeds]
    /\ files = <<>> /\ futures = <<>> /\ results = <<>> /\ written = <<>>
    /\ raised = Unused /\ PdfUnused
    /\ line = Unused /\ cells = Unused /\ markdown = Unused /\ tables = Unused
    /\ lines = Unused /\ todo = Unused /\ result = Unused /\ table = Unused
    /\ verdict = Unused /\ cleaned = Unused

table_vars == <<line, cells, markdown, tables, lines, todo, result, table, verdict, cleaned, raised,
                pdf_vars>>

\* files = discover_files(...), and every task submitted to the executor.
Discover ==
    /\ pc = "discover"
    /\ files' = discover_files(request.discovered)
    /\ futures' = [n \in 1..Len(files') |-> [state |-> "submitted", result |-> <<>>]]
    /\ pc' = "collect"
    /\ UNCHANGED <<table_vars, request, results, written>>

\* The state of a task that has returned res.
Completed(res) == [state |-> "completed", result |-> <<res>>]

\* A thread of the executor runs task n of convert_batch: convert_and_save.
RunConvertAndSave(n) ==
    /\ pc = "collect"
    /\ request.method = "convert_batch"
    /\ futures[n].state = "submitted"
    /\ LET res == convert_file(files[n], request.succeeds[n])
       IN  /\ futures' = [futures EXCEPT ![n] =
                  Completed(SavedResult(res, request.output_dir, request.source_base))]
           /\ written' = written \o SavedWrite(res, request.output_dir, request.source_base, n)
    /\ UNCHANGED <<table_vars, pc, request, files, results>>

\* A thread of the executor runs task n of convert_and_merge: convert_file.
RunConvertFile(n) ==
    /\ pc = "collect"
    /\ request.method = "convert_and_merge"
    /\ futures[n].state = "submitted"
    /\ futures' = [futures EXCEPT ![n] = Completed(convert_file(files[n], request.succeeds[n]))]
    /\ UNCHANGED <<table_vars, pc, request, files, results, written>>

\* as_completed yields a task that has completed: results.append(future.result())
Collect(n) ==
    /\ pc = "collect"
    /\ futures[n].state = "completed"
    /\ results' = Append(results, futures[n].result[1])
    /\ futures' = [futures EXCEPT ![n].state = "collected"]
    /\ UNCHANGED <<table_vars, pc, request, files, written>>

\* results.sort(key=lambda r: r.source_path.name.lower()), and the return of
\* convert_batch.
SortResults ==
    /\ pc = "collect"
    /\ \A n \in 1..Len(futures) : futures[n].state = "collected"
    /\ results' = SortedByLowerName(results,
                                     [n \in 1..Len(results) |-> results[n].source_path.name])
    /\ pc' = IF request.method = "convert_batch" THEN "done" ELSE "write_merged"
    /\ UNCHANGED <<table_vars, request, files, futures, written>>

\* self._write_merged(results, merged_path), and the return of convert_and_merge.
WriteMerged ==
    /\ pc = "write_merged"
    /\ written' = written \o MergedWrite(results, MergedPath(request.output_dir))
    /\ results' = MergedResults(results, MergedPath(request.output_dir))
    /\ pc' = "done"
    /\ UNCHANGED <<table_vars, request, files, futures>>

NextConvert ==
    \/ Discover
    \/ \E n \in 1..Len(futures) : RunConvertAndSave(n)
    \/ \E n \in 1..Len(futures) : RunConvertFile(n)
    \/ \E n \in 1..Len(futures) : Collect(n)
    \/ SortResults
    \/ WriteMerged

SpecConvert == InitConvert /\ [][NextConvert]_vars

Merging == request.method = "convert_and_merge" /\ pc = "done"

\* The parts of text between the occurrences of sep, read from the left.
RECURSIVE CutAt(_, _)
CutAt(text, sep) ==
    LET at == {n \in 1..(Len(text) - Len(sep) + 1) : SubSeq(text, n, n + Len(sep) - 1) = sep}
        first == CHOOSE n \in at : \A m \in at : n <= m
    IN  IF at = {} THEN <<text>>
        ELSE <<SubSeq(text, 1, first - 1)>> \o CutAt(From(text, first + Len(sep) - 1), sep)

\* The text of the merged file without its final line break, cut at the
\* "---" separators.
WrittenSections == CutAt(SubSeq(written[1].content, 1, Len(written[1].content) - 1), Separator)

\* C22: after convert_and_merge, the merged file holds one section for each
\* successful result and no other, in the order of the results, each made of
\* "# <filename>", a blank line and the Markdown; the sections are joined by
\* "---" lines; a failed result is in the returned list with its error and no
\* output_path; when every conversion failed nothing is written and no result
\* has an output_path.
C22_MergedHoldsSuccessesOnly ==
    Merging =>
        /\ Len(results) = Len(files)
        /\ \A n \in 1..Len(results) :
               ~results[n].success => results[n].error # <<>> /\ results[n].output_path = <<>>
        /\ Successful(results) = <<>> =>
               written = <<>> /\ \A n \in 1..Len(results) : results[n].output_path = <<>>
        /\ Successful(results) # <<>> =>
               /\ Len(written) = 1
               /\ written[1].path = MergedPath(request.output_dir)
               /\ written[1].content[Len(written[1].content)] = NL
               /\ Len(WrittenSections) = Len(Successful(results))
               /\ \A n \in 1..Len(WrittenSections) :
                      SplitLines(WrittenSections[n])
                          = <<<<"#", " ">> \o Successful(results)[n].source_path.name, <<>>,
                              Successful(results)[n].markdown>>

\* convert_and_merge has returned with one conversion failed and one
\* successful.
C22_Witness ==
    /\ Merging
    /\ \E n, m \in 1..Len(results) : results[n].success /\ ~results[m].success
    /\ Len(written) = 1

\* The results of the tasks in the order of submission, which is the list
\* returned when the tasks complete in that order: files is sorted by
\* lower-cased name already and the sort is stable.
ResultsInFileOrder ==
    [n \in 1..Len(files) |-> convert_file(files[n], request.succeeds[n])]

\* C23: the list returned by convert_batch and by convert_and_merge, and the
\* sections of the merged file, are the same for every order in which the
\* tasks complete: they are what the call returns and writes when the tasks
\* complete in the order of submission.
C23_SameForEveryCompletionOrder ==
    pc = "done" =>
        /\ [n \in 1..Len(results) |-> results[n].source_path] = files
        /\ request.method = "convert_and_merge" =>
               written = MergedWrite(ResultsInFileOrder, MergedPath(request.output_dir))

\* The files of the call are distinct: discover_files keeps one of each path.
DistinctFiles == \A n, m \in 1..Len(files) : n # m => files[n] # files[m]

\* C30: in convert_batch distinct source files are written to distinct
\* output paths: whatever the order in which the workers run, no two of the
\* files written so far have the same path.
C30_DistinctFilesDistinctOutputPaths ==
    pc # "discover" /\ request.method = "convert_batch" =>
        /\ DistinctFiles
        /\ \A n, m \in 1..Len(written) : n # m => written[n].path # written[m].path

\* x.pdf and x.docx of one directory were both converted, by two tasks, and
\* both texts went to x.md of that directory: the text written first is lost.
C30_Overwritten ==
    /\ pc = "done" /\ request.method = "convert_batch"
    /\ DistinctFiles
    /\ Len(written) = 2
    /\ written[1].path = written[2].path
    /\ written[1].by # written[2].by
    /\ written[1].content # written[2].content

-----------------------------------------------------------------------------
(* Specification SpecSubheader: one call of clean_table on a table of up   *)
(* to MaxSubCols columns whose first data row has a chosen number of cells *)
(* that count towards the sub-header ratio.                                *)

MaxSubCols == 10

Ab == <<"a", "b">>
Zz == <<"z", "z">>

\* Cells that count under a header cell "ab": empty, contained in it,
\* containing it, and a format hint in upper case.
CountingCells == <<<<>>, <<"a">>, <<"a", "b", "c">>, <<"H", "H", ":", "M", "M">>>>

\* Headers of n cells: all named, the first generic, the first empty.
SubHeaders(n) ==
    {Full(n, Ab), <<<<"C", "o", "l", "1">>>> \o Full(n - 1, Ab), <<<<>>>> \o Full(n - 1, Ab)}

\* A first row of m cells of which the first k count, the others do not; and
\* the same after an integer cell.
SubFirstRows(m) ==
    {[j \in 1..m |-> IF j <= k THEN CountingCells[(j % 4) + 1] ELSE Zz] : k \in 0..m}
        \cup {<<<<"1">>>> \o [j \in 1..(m - 1) |-> IF j <= k THEN CountingCells[(j % 4) + 1] ELSE Zz] :
                  k \in 0..(m - 1)}

\* The rows after the first: none, a row of empty cells, a row of cells that
\* do not count after the next integer.
SubLaterRows(m) == {<<>>, <<Full(m, <<>>)>>, <<<<<<"2">>>> \o Full(m - 1, Zz)>>}

InitSubheader ==
    /\ pc = "clean"
    /\ \E n \in 1..MaxSubCols :
           \E h \in SubHeaders(n), m \in {k \in {n - 1, n, n + 1} : k >= 1} :
               \E first \in SubFirstRows(m), later \in SubLaterRows(m) :
                   table = ParsedTable(h, <<first>> \o later, 0, 2 + Len(later))
    /\ cleaned = Unused /\ LaterUnused
    /\ line = Unused /\ cells = Unused /\ markdown = Unused /\ tables = Unused
    /\ lines = Unused /\ todo = Unused /\ result = Unused /\ verdict = Unused

SpecSubheader == InitSubheader /\ [][NextClean]_vars

\* Cell i of the row is empty, a format hint, or contains or is contained in
\* the text of the header cell i, if there is one that has text.
CountsAsHeader(row, header, i) ==
    \/ Strip(_clean_br(row[i])) = <<>>
    \/ MatchFormatHint(Strip(_clean_br(row[i])))
    \/ /\ i <= Len(header)
       /\ Strip(_clean_br(header[i])) # <<>>
       /\ \/ IsSubstring(Strip(_clean_br(row[i])), Strip(_clean_br(header[i])))
          \/ IsSubstring(Strip(_clean_br(header[i])), Strip(_clean_br(row[i])))

\* At least 0.7 of the cells of the row count, in exact arithmetic.
SeventyPercentCount(row, header) ==
    /\ Len(row) > 0
    /\ 10 * Cardinality({i \in 1..Len(row) : CountsAsHeader(row, header, i)}) >= 7 * Len(row)

\* The data rows of the output text are the rows given, cut or padded to the
\* header.
EmittedRows(out, header, rows) ==
    /\ Len(out) = 2 + Len(rows)
    /\ Len(_split_row(out[1])) = Len(header) =>
           \A k \in 1..Len(rows) :
               _split_row(out[k + 2]) = [ci \in 1..Len(header) |-> Strip(CellOr(rows[k], ci - 1))]

\* C24: clean_table drops the first data row exactly when at least 0.7 of
\* its cells (0.7 included) are empty, a format hint, or contain or are
\* contained in the header cell at the same index; it drops no other row, and
\* the rows it keeps are emitted in order.
C24_FirstRowDroppedAtSeventyPercent ==
    pc = "clean_done" /\ cleaned # <<>> =>
        LET rows == [n \in 1..Len(table.data_rows) |-> CleanCells(table.data_rows[n])]
        IN  IF SeventyPercentCount(rows[1], RenamedHeader)
            THEN EmittedRows(OutputLines, RenamedHeader, Tail(rows))
            ELSE EmittedRows(OutputLines, RenamedHeader, rows)

\* A first row of ten cells of which exactly seven count was dropped, and the
\* row of empty cells after it was kept.
C24_Witness ==
    /\ pc = "clean_done"
    /\ Len(table.data_rows) = 2
    /\ Len(table.data_rows[1]) = 10
    /\ Cardinality({i \in 1..10 : CountsAsHeader(CleanCells(table.data_rows[1]), RenamedHeader, i)}) = 7
    /\ Len(OutputLines) = 3
    /\ \A c \in Range(_split_row(OutputLines[3])) : c = <<>>

-----------------------------------------------------------------------------
(* Specification SpecInfer: one call of clean_table on a table of two      *)
(* columns, one of them with a generic header, and up to MaxInferRows data *)
(* rows.                                                                   *)

MaxInferRows == 3

Col1 == <<"C", "o", "l", "1">>

\* Values of the generic column: none, integers, and text.
InferCells == {<<>>, <<"0">>, <<"1">>, <<"2">>, <<"3">>, <<"-", "1">>, <<"x">>}

InferHeaders == {<<Col1, <<"a">>>>, <<<<"a">>, Col1>>, <<<<"a">>, <<"a">>>>}

\* Rows under a header: the generic column first with any value, or second
\* with a few values or missing.
InferRows(h) ==
    IF h[1] = Col1 THEN {<<c, <<"v">>>> : c \in InferCells}
    ELSE {<<<<"v">>, c>> : c \in {<<>>, <<"1">>, <<"2">>}} \cup {<<<<"v">>>>}

InitInfer ==
    /\ pc = "clean"
    /\ \E h \in InferHeaders :
           \E rs \in SeqsUpTo(InferRows(h), MaxInferRows) :
               table = ParsedTable(h, rs, 0, 1 + Len(rs))
    /\ cleaned = Unused /\ LaterUnused
    /\ line = Unused /\ cells = Unused /\ markdown = Unused /\ tables = Unused
    /\ lines = Unused /\ todo = Unused /\ result = Unused /\ verdict = Unused

SpecInfer == InitInfer /\ [][NextClean]_vars

\* The values of column ci (from 0) in the data rows that have it, cleaned.
ColumnOf(ci) ==
    LET with_col == SelectSeq(table.data_rows, LAMBDA row : ci < Len(row))
    IN  [n \in 1..Len(with_col) |-> Strip(_clean_br(with_col[n][ci + 1]))]

\* The values are integers, each one more than the one before.
ConsecutiveIntegers(values) ==
    /\ values # <<>>
    /\ \A n \in 1..Len(values) : ParseInt(values[n]).ok
    /\ \A n \in 2..Len(values) : ParseInt(values[n]).value = ParseInt(values[n - 1]).value + 1

\* The header with "Day" for the generic cells whose column satisfies Renamed,
\* every other cell as it is.
HeaderWithDay(Renamed(_)) ==
    [n \in 1..Len(table.header_cells) |->
        IF MatchGeneric(Strip(_clean_br(table.header_cells[n]))) /\ Renamed(n - 1)
        THEN Day
        ELSE _clean_br(table.header_cells[n])]

\* The text returned is the table under the given header.
CleanedUnder(header) ==
    cleaned = CleanRowsAndColumns(header,
                  [n \in 1..Len(table.data_rows) |-> CleanCells(table.data_rows[n])])

\* C25: clean_table renames a header cell matching Col<digits> to "Day"
\* exactly when all the values of its column in the data rows, the empty ones
\* included, are integers that ascend by 1 from the first; every other header
\* cell is left as it is.
C25_DayWhenAllValuesConsecutive ==
    pc = "clean_done" =>
        CleanedUnder(HeaderWithDay(LAMBDA ci : ConsecutiveIntegers(ColumnOf(ci))))

\* C25 as the code has it: clean_table renames a header cell matching
\* Col<digits> to "Day" exactly when the column has a non-empty value and its
\* non-empty values in the data rows are integers that ascend by 1 from the
\* first; every other header cell is left as it is.
C25_DayWhenNonEmptyValuesConsecutive ==
    pc = "clean_done" =>
        CleanedUnder(HeaderWithDay(
            LAMBDA ci : ConsecutiveIntegers(SelectSeq(ColumnOf(ci), LAMBDA v : v # <<>>))))

\* A generic header was renamed over a column with an empty value between
\* consecutive integers, and the output has the header "Day".
C25_Witness ==
    /\ pc = "clean_done"
    /\ table.header_cells[1] = Col1
    /\ Len(table.data_rows) = 3
    /\ ColumnOf(0)[2] = <<>>
    /\ ConsecutiveIntegers(<<ColumnOf(0)[1], ColumnOf(0)[3]>>)
    /\ OutputHeader[1] = Day

-----------------------------------------------------------------------------
(* Specification SpecTitle: restructure_degenerate on wide tables whose    *)
(* first column holds one title, several, cells that clean to nothing, and *)
(* whose rows may be a single cell; the header row carries a label in its  *)
(* first or its second cell.                                               *)

MaxTitleRows == 2

Abcdef == Abc \o Def

Br == <<"<", "b", "r", ">">>

\* The header cells R, abcdef, Col3, ..., Coln: a role name in column 0.
RoleFirstHeader(n) ==
    [i \in 1..n |-> IF i = 1 THEN <<"R">>
                    ELSE IF i = 2 THEN Abcdef
                    ELSE <<"C", "o", "l">> \o Decimal(i)]

TitleHeaders(n) == {GenericWideHeader(n), NamedWideHeader(n), RoleFirstHeader(n)}

\* Rows of n cells and one row of a single cell: the title plain and bold, a
\* second title, a first cell that is only a <br> tag, and an empty first cell.
TitleRows(n) ==
    {RoleRow(n, <<"T">>, <<"R">>, <<Consulting>>),
     RoleRow(n, <<"*", "*", "T", "*", "*">>, <<"Q">>, <<Abcdef>>),
     RoleRow(n, <<"U">>, <<"R">>, <<Consulting>>),
     RoleRow(n, Br, <<"R">>, <<Abcdef>>),
     RoleRow(n, <<>>, <<"Q">>, <<Consulting>>),
     <<<<"T">>>>}

InitTitle ==
    /\ pc = "classify"
    /\ \E h \in TitleHeaders(MIN_COLUMNS_FOR_DEGENERATE),
          rs \in SeqsUpTo(TitleRows(MIN_COLUMNS_FOR_DEGENERATE), MaxTitleRows) :
           table = ParsedTable(h, rs, 0, 1 + Len(rs))
    /\ verdict = Unused /\ markdown = Unused /\ tables = Unused
    /\ line = Unused /\ cells = Unused /\ lines = Unused /\ todo = Unused
    /\ result = Unused /\ cleaned = Unused /\ LaterUnused

SpecTitle == InitTitle /\ [][NextRestructure]_vars

TitleHeading(s) == <<"#", "#", " ">> \o s

IsTitleHeading(l) == StartsWith(l, <<"#", "#", " ">>)

\* The distinct non-empty cleaned values of column 0 of the data rows.
DistinctTitles(t) ==
    {CleanLabel(r[1]) : r \in {x \in Range(t.data_rows) : x # <<>>}} \ {<<>>}

\* The cleaned cell of row in column col (from 0), empty when row is shorter.
RoleAt(row, col) == IF col < Len(row) THEN CleanLabel(row[col + 1]) ELSE <<>>

\* The non-empty values of roles in the order of their first appearance.
RECURSIVE RolesFirstSeen(_, _)
RolesFirstSeen(roles, seen) ==
    IF roles = <<>> THEN seen
    ELSE IF Head(roles) = <<>> \/ Head(roles) \in Range(seen)
         THEN RolesFirstSeen(Tail(roles), seen)
    ELSE RolesFirstSeen(Tail(roles), Append(seen, Head(roles)))

\* The role names of the level-3 headings of ls, in order.
HeadingTexts(ls) ==
    LET hs == SelectSeq(ls, IsHeading)
    IN  [k \in 1..Len(hs) |-> From(hs[k], 4)]

\* The roles of the header entry and of the data rows of t, read in column col.
RolesInColumn(t, col) ==
    [k \in 1..Len(HeaderRoles(t.header_cells)) |-> HeaderRoles(t.header_cells)[k].role]
        \o [n \in 1..Len(t.data_rows) |-> RoleAt(t.data_rows[n], col)]

\* C26: restructure_degenerate emits a level-2 title heading exactly when the
\* cleaned, bold-stripped column-0 values of the data rows have exactly one
\* distinct non-empty value, and the heading is that value; with a title the
\* role of every data row is its column 1, without one its column 0, so the
\* level-3 headings are the roles read there, in first-seen order.
C26_TitleExactlyForOneDistinctValue ==
    pc = "restructured" =>
        LET ls == RestructuredLines
            one == Cardinality(DistinctTitles(table)) = 1
        IN  /\ (\E k \in 1..Len(ls) : IsTitleHeading(ls[k])) <=> one
            /\ one => ls[1] = TitleHeading(CHOOSE v \in DistinctTitles(table) : TRUE)
            /\ HeadingTexts(ls)
                   = RolesFirstSeen(RolesInColumn(table, IF one THEN 1 ELSE 0), <<>>)

\* The title part of C26 alone, for tables whose column-0 cells are empty or
\* clean to something: it is the cell that cleans to nothing that the code
\* counts as a value.
C26_TitleWhenCellsCleanToText ==
    pc = "restructured"
    /\ (\A r \in Range(table.data_rows) : Strip(r[1]) = <<>> \/ CleanLabel(r[1]) # <<>>)
        => ((\E k \in 1..Len(RestructuredLines) : IsTitleHeading(RestructuredLines[k]))
                <=> Cardinality(DistinctTitles(table)) = 1)

\* The first cell of one row is only a <br> tag, the other rows share one
\* title, and no title heading was emitted.
C26_TitleLost ==
    /\ pc = "restructured"
    /\ Len(table.data_rows) = 2
    /\ table.data_rows[1][1] = Br
    /\ DistinctTitles(table) = {<<"T">>}
    /\ \A k \in 1..Len(RestructuredLines) : ~IsTitleHeading(RestructuredLines[k])

\* The lines a role entry seeded from the header cells after column col gives,
\* with the items the data rows add to it.
SeededSection(t, title, col) ==
    LET seeded == [role |-> CleanLabel(t.header_cells[col + 1]),
                   items |-> _collect_unique_items(From(t.header_cells, col + 1))]
    IN  SectionLines(<<RolesFrom(t.data_rows, 1, title, <<seeded>>)[1]>>, 1)

\* C27: when the header cell at the role column (column 1 if a title was
\* found, column 0 otherwise) is a non-empty, non-generic label, the text
\* begins, after the title, with the section of that role: its heading, the
\* items of the header cells after the role column, then the items the data
\* rows of that role add to them.
C27_HeaderRoleSeededAtRoleColumn ==
    pc = "restructured" =>
        LET ls == RestructuredLines
            title == TitleOf(table)
            col == IF title # <<>> THEN 1 ELSE 0
            skip == IF title # <<>> THEN 2 ELSE 0
            label == CleanLabel(table.header_cells[col + 1])
            section == SeededSection(table, title, col)
        IN  label # <<>> /\ ~MatchGeneric(label) =>
                /\ Len(ls) >= skip + Len(section)
                /\ SubSeq(ls, skip + 1, skip + Len(section)) = section

\* C27 read at column 1 whatever the title, and only for a header row whose
\* later cells hold an item: this is what the code does.
C27_HeaderRoleSeededAtColumnOne ==
    pc = "restructured" =>
        LET ls == RestructuredLines
            title == TitleOf(table)
            skip == IF title # <<>> THEN 2 ELSE 0
            label == CleanLabel(table.header_cells[2])
            section == SeededSection(table, title, 1)
        IN  label # <<>> /\ ~MatchGeneric(label)
            /\ _collect_unique_items(From(table.header_cells, 2)) # <<>> =>
                /\ Len(ls) >= skip + Len(section)
                /\ SubSeq(ls, skip + 1, skip + Len(section)) = section

-----------------------------------------------------------------------------
(* The PDF converter: PDFConverter.convert (converters/pdf.py).  The      *)
(* extraction library is the environment: each call of to_markdown         *)
(* returns a text, returns None, or raises an exception of a class derived *)
(* from Exception with a message that may be empty.  images_extracted and  *)
(* quality_score of the result are left out.                               *)

NotInstalled ==
    <<"p", "y", "m", "u", "p", "d", "f", "4", "l", "l", "m", " ", "i", "s", " ",
      "n", "o", "t", " ", "i", "n", "s", "t", "a", "l", "l", "e", "d">>

\* str(e) of the AttributeError raised by None.split.
NoneHasNoSplit ==
    <<"N", "o", "n", "e", "T", "y", "p", "e", " ", "h", "a", "s", " ", "n", "o", " ",
      "s", "p", "l", "i", "t">>

_create_error_result(file_path, error) ==
    ConversionResult(file_path, <<>>, FALSE, <<>>, <<error>>)

_create_success_result(file_path, text) ==
    ConversionResult(file_path, <<>>, TRUE, text, <<>>)

\* The loop of _clean_markdown over ls[n..].
RECURSIVE CleanedLinesFrom(_, _, _, _)
CleanedLinesFrom(ls, n, prev_blank, cleaned_lines) ==
    IF n > Len(ls) THEN cleaned_lines
    ELSE IF Strip(ls[n]) = <<>> /\ prev_blank
         THEN CleanedLinesFrom(ls, n + 1, prev_blank, cleaned_lines)
    ELSE CleanedLinesFrom(ls, n + 1, Strip(ls[n]) = <<>>, Append(cleaned_lines, ls[n]))

_clean_markdown(text) == Strip(JoinLines(CleanedLinesFrom(SplitLines(text), 1, FALSE, <<>>)))

\* What one call made by convert did: it returned value, or raised an
\* exception of the class raised with the message value.
Returned(name, value) == [name |-> name, raised |-> "", value |-> value]

Raised(name, class, message) == [name |-> name, raised |-> class, value |-> message]

\* The except clause of the retry loop: TRUE when the exception is swallowed
\* and the loop goes on.
ExtractionRetries(class, n) == class = "AttributeError" /\ n = 0

\* except Exception: the classes it catches.
ExceptionClasses == {"AttributeError", "ValueError"}

-----------------------------------------------------------------------------
(* Specification SpecPdf: one call of PDFConverter.convert on a file whose *)
(* extraction gives a text of up to MaxPdfLines lines, None, or an error.  *)

MaxPdfLines == 2

\* Lines of extracted text: blank, text, text with spaces around it, and the
\* header, separator and data row of a table.
PdfLines ==
    {<<>>, <<" ", "x", " ">>, <<PIPE, "a", PIPE, "b", PIPE>>,
     <<PIPE, "-", PIPE, "-", PIPE>>, <<PIPE, "1", PIPE, "2", PIPE>>}

PdfTexts == {JoinLines(doc) : doc \in UNION {[1..n -> PdfLines] : n \in 1..MaxPdfLines}}

Messages == {<<>>, <<"e", "r", "r">>}

PdfFile == [parent |-> <<"src">>, name |-> Name(<<"x">>, Pdf)]

InitPdf ==
    /\ pc = "import"
    /\ \E installed \in BOOLEAN, extract_images \in BOOLEAN :
           request = [file_path |-> PdfFile, installed |-> installed,
                      extract_images |-> extract_images]
    /\ attempt = 0 /\ calls = <<>>
    /\ markdown = <<>> /\ result = Unused
    /\ line = Unused /\ cells = Unused /\ tables = Unused /\ lines = Unused
    /\ todo = Unused /\ table = Unused /\ verdict = Unused /\ cleaned = Unused
    /\ raised = Unused
    /\ files = Unused /\ futures = Unused /\ results = Unused /\ written = Unused

pdf_unused ==
    <<line, cells, tables, lines, todo, table, verdict, cleaned, raised,
      files, futures, results, written>>

\* The handler of the outer try for an exception e raised in its body: the
\* error result is returned.
ReturnError(call) ==
    /\ call.raised \in ExceptionClasses
    /\ calls' = Append(calls, call)
    /\ result' = _create_error_result(request.file_path, call.value)
    /\ pc' = "returned"
    /\ UNCHANGED <<pdf_unused, request, attempt, markdown>>

\* import pymupdf4llm, and the error result when it cannot be imported.
ImportLibrary ==
    /\ pc = "import"
    /\ IF request.installed
       THEN pc' = "to_markdown" /\ UNCHANGED result
       ELSE pc' = "returned"
            /\ result' = _create_error_result(request.file_path, NotInstalled)
    /\ UNCHANGED <<pdf_unused, request, attempt, calls, markdown>>

\* pymupdf4llm.to_markdown returns a text or None: break.
ExtractionReturns ==
    /\ pc = "to_markdown"
    /\ \E value \in {<<>>} \cup {<<t>> : t \in PdfTexts} :
           /\ markdown' = value
           /\ calls' = Append(calls, Returned("to_markdown", value))
    /\ pc' = "postprocess_tables"
    /\ UNCHANGED <<pdf_unused, request, attempt, result>>

\* pymupdf4llm.to_markdown raises AttributeError in the first attempt:
\* time.sleep and the next attempt.
ExtractionRetried ==
    /\ pc = "to_markdown"
    /\ \E class \in ExceptionClasses, message \in Messages :
           /\ ExtractionRetries(class, attempt)
           /\ calls' = Append(calls, Raised("to_markdown", class, message))
    /\ attempt' = attempt + 1
    /\ UNCHANGED <<pdf_unused, pc, request, markdown, result>>

\* pymupdf4llm.to_markdown raises another exception, or AttributeError in the
\* second attempt: it reaches the outer handler.
ExtractionFails ==
    /\ pc = "to_markdown"
    /\ \E class \in ExceptionClasses, message \in Messages :
           /\ ~ExtractionRetries(class, attempt)
           /\ ReturnError(Raised("to_markdown", class, message))

\* markdown = postprocess_tables(markdown); None has no split.
PostprocessTables ==
    /\ pc = "postprocess_tables"
    /\ IF markdown = <<>>
       THEN ReturnError(Raised("postprocess_tables", "AttributeError", NoneHasNoSplit))
       ELSE /\ PostprocessRaises(markdown[1]) = {}
            /\ markdown' = <<postprocess_tables(markdown[1])>>
            /\ calls' = Append(calls, Returned("postprocess_tables", markdown'))
            /\ pc' = "_clean_markdown"
            /\ UNCHANGED <<pdf_unused, request, attempt, result>>

\* markdown = self._clean_markdown(markdown)
CleanMarkdown ==
    /\ pc = "_clean_markdown"
    /\ markdown' = <<_clean_markdown(markdown[1])>>
    /\ calls' = Append(calls, Returned("_clean_markdown", markdown'))
    /\ pc' = "return"
    /\ UNCHANGED <<pdf_unused, request, attempt, result>>

\* _extract_images, which raises nothing, when asked for, and the success
\* result.
ReturnSuccess ==
    /\ pc = "return"
    /\ calls' = IF request.extract_images
                THEN Append(calls, Returned("_extract_images", <<>>))
                ELSE calls
    /\ result' = _create_success_result(request.file_path, markdown[1])
    /\ pc' = "returned"
    /\ UNCHANGED <<pdf_unused, request, attempt, markdown>>

NextPdf ==
    \/ ImportLibrary
    \/ ExtractionReturns
    \/ ExtractionRetried
    \/ ExtractionFails
    \/ PostprocessTables
    \/ CleanMarkdown
    \/ ReturnSuccess

SpecPdf == InitPdf /\ [][NextPdf]_vars

\* The calls of to_markdown made so far.
Attempts == SelectSeq(calls, LAMBDA c : c.name = "to_markdown")

\* A call raised an exception other than the AttributeError of the first
\* attempt at the extraction.
ConversionBroke ==
    \E k \in 1..Len(calls) :
        calls[k].raised # "" /\ ~(k = 1 /\ calls[k].raised = "AttributeError")

\* The text the extraction returned is a string, and postprocess_tables was
\* called on it, then _clean_markdown on what it returned, which is the
\* Markdown of the result.
PostprocessedThenCleaned ==
    \E k \in 1..(Len(calls) - 2) :
        /\ calls[k].name = "to_markdown" /\ calls[k].raised = "" /\ calls[k].value # <<>>
        /\ calls[k + 1] = Returned("postprocess_tables", <<postprocess_tables(calls[k].value[1])>>)
        /\ calls[k + 2] = Returned("_clean_markdown", <<_clean_markdown(calls[k + 1].value[1])>>)
        /\ result.markdown = calls[k + 2].value[1]

\* The parts of C28 other than the text of the error message: no exception
\* leaves convert, at most two attempts, the second only after an
\* AttributeError, a failed result whenever a call broke, and a success
\* result only with the text postprocess_tables returned.
ConvertContainsFailures ==
    /\ pc # "propagated"
    /\ Len(Attempts) <= 2
    /\ Len(Attempts) = 2 => Attempts[1].raised = "AttributeError"
    /\ pc = "returned" /\ ConversionBroke => ~result.success /\ result.error # <<>>
    /\ pc = "returned" /\ result.success => PostprocessedThenCleaned

\* C28: PDFConverter.convert never propagates an exception and makes at most
\* two attempts at the extraction, the second only after the first raised
\* AttributeError; a second AttributeError, any other exception from the
\* extraction and any exception from post-processing or clean-up give a
\* result with success false and a non-empty error message; a success result
\* is returned only after postprocess_tables was applied to the extracted text.
C28_FailuresGiveErrorWithMessage ==
    /\ ConvertContainsFailures
    /\ pc = "returned" /\ ConversionBroke => result.error[1] # <<>>

\* C28 without the message: this is what convert guarantees.
C28_FailuresGiveErrorResult ==
    ConvertContainsFailures /\ (pc = "returned" /\ ConversionBroke => result.error = <<calls[Len(calls)].value>>)

\* The extraction raised an exception without a message, and the error of
\* the result is the empty string.
C28_EmptyMessage ==
    /\ pc = "returned"
    /\ calls = <<Raised("to_markdown", "ValueError", <<>>)>>
    /\ ~result.success /\ result.error = <<<<>>>>

====
